---- MODULE Spec2Model ----
(***************************************************************************)
(* Connection manager, reconnection state machine and request/reply        *)
(* correlation of the React Native debugger bridge                         *)
(* (src/src/core/connection.ts, src/src/core/executor.ts,                  *)
(* src/src/core/state.ts).                                                 *)
(*                                                                         *)
(* One Metro port is modelled; a connection key is "<port>-<device id>",   *)
(* so a key is identified with the device id.  Every callback of the       *)
(* single-threaded event loop (a WebSocket event handler, a timer          *)
(* callback, the synchronous segment of an async function between two      *)
(* awaits) is one atomic action.  Handlers are written as operators from   *)
(* a record of the shared state to the record after the handler, so that   *)
(* handlers the runtime runs back to back (error then close) compose.      *)
(***************************************************************************)
EXTENDS Integers, Sequences, FiniteSets, TLC

\* ------------------------------------------------------------------ bounds

\* WebSocket objects alive at the same time (finished ones are reused).
MaxWs == 2

\* The clock stops here.  Time is counted in units of the stability window.
MaxTime == 1

\* attemptReconnection calls of one key awaiting fetchDevices at the same time.
MaxInFlight == 1

\* Last message identifier getNextMessageId hands out.
MaxMessageId == 6

\* The largest maxRetries option of an executeInApp call.
MaxRetries == 2

\* The message ids of two connects (three each), and of the requests and
\* reconnects of one executeInApp call.
MaxExecMessageId == 7 + 4 * MaxRetries

\* The console events routed.
MaxLogged == 1200

\* Device ids (connection keys of the one port).
Keys == {"A", "B"}

\* ------------------------------------------------- constants of the program

\* connectionState.ts is not among the sources: the stability window is
\* the unit of the model's clock.
MIN_STABLE_CONNECTION_MS == 1

\* DEFAULT_RECONNECTION_CONFIG.maxAttempts ("up to 8 attempts").
MaxAttempts == 8

\* "immediate, 500ms, 1s, 2s, 4s, 8s"
BackoffSchedule == <<0, 500, 1000, 2000, 4000, 8000>>

\* Bounded history of connectivity gaps kept per key.
MaxGaps == 2

\* new LogBuffer(1000)
LogCapacity == 1000

DEFAULT_RECONNECTION_CONFIG == [enabled |-> TRUE, maxAttempts |-> MaxAttempts]

Min(a, b) == IF a <= b THEN a ELSE b

\* calculateBackoffDelay(attempt, config): the schedule entry of the attempt
\* count, clamped to the last entry.
calculateBackoffDelay(attempts, config) ==
    BackoffSchedule[Min(attempts + 1, Len(BackoffSchedule))]

\* ------------------------------------------------------------------- state

VARIABLES
    ws,                  \* the WebSocket objects created by connectToDevice
    connectedApps,       \* state.ts connectedApps: the entries <<key, WebSocket>> in insertion order
    connectionLocks,     \* connection.ts connectionLocks
    reconnectionTimers,  \* armed reconnection timer of a key: its delay, or NoTimer
    connectionMetadata,  \* keys with saved ConnectionMetadata
    connectionStates,    \* ConnectionHealth of a key, or NoState
    contextHealth,       \* ContextHealth of a key, or NoContext
    fetching,            \* attemptReconnection calls awaiting fetchDevices, per key
    targets,             \* the device ids Metro's /json lists, in its order
    pendingExecutions,   \* state.ts pendingExecutions: message id -> PendingExecution
    execTimers,          \* the armed timeout timers of requests
    messageId,           \* state.ts _messageId
    now,                 \* Date.now()
    completions,         \* history: what completed the request of an id
    sinceStable,         \* history: reconnections scheduled since the last stable connection
    last,                \* history: the operation of the last step and its outcome
    exec,                \* the executeInApp call in progress: its position and locals
    reload,              \* the reloadApp call in progress: its position and locals
    networkBuffer,       \* state.ts networkBuffer: request id -> NetworkRequest
    logBuffer,           \* state.ts logBuffer: the entries, oldest first
    logged,              \* history: the number of entries added to logBuffer
    ensure               \* the ensureConnection call in progress: its position and locals

vars == <<ws, connectedApps, connectionLocks, reconnectionTimers, connectionMetadata,
          connectionStates, contextHealth, fetching, targets, pendingExecutions, execTimers,
          messageId, now, completions, sinceStable, last, exec, reload, networkBuffer,
          logBuffer, logged, ensure>>

\* The tool calls in progress and the buffers the connection events leave alone.
tools == <<exec, reload, networkBuffer, logBuffer, logged, ensure>>

WsIds == 1..MaxWs
NoWs == 0
NoTimer == -1
NoState == [status |-> "none"]
NoContext == [contextId |-> -1]
NoTime == -1
MessageIds == 1..MaxMessageId
ExecMessageIds == 1..MaxExecMessageId

\* No PendingExecution under a message id.
NoPending == [kind |-> "none", key |-> ""]

\* A slot holding no WebSocket.  History of a WebSocket: openedAt (when it
\* opened) and origin (the key whose reconnection created it, else its own).
FreeWs == [key |-> "", isReconnection |-> FALSE, enabled |-> FALSE,
           readyState |-> "FREE", timeout |-> FALSE, promise |-> "none",
           openedAt |-> NoTime, origin |-> ""]

\* The shared state as one record, the argument and result of every handler.
Pack == [ws |-> ws, apps |-> connectedApps, locks |-> connectionLocks,
         timers |-> reconnectionTimers, meta |-> connectionMetadata,
         states |-> connectionStates, ctx |-> contextHealth,
         pending |-> pendingExecutions, execTimers |-> execTimers,
         messageId |-> messageId, now |-> now, completions |-> completions,
         sinceStable |-> sinceStable, last |-> last]

\* ------------------------------------ connectionState.ts (not among the sources)

\* getConnectionState(appKey)
getConnectionState(s, k) == s.states[k]

HasState(s, k) == s.states[k] # NoState

\* initConnectionState(appKey): the ConnectionHealth entry is created on the
\* first connection of a key; on a later fresh connect it records the
\* transition to connected and stamps lastConnectedTime.  The attempt count
\* is reset only by the stability check of the close handler (I2).
initConnectionState(s, k) ==
    IF HasState(s, k)
    THEN [s EXCEPT !.states[k].status = "connected",
                   !.states[k].lastConnectedTime = s.now]
    ELSE [s EXCEPT !.states[k] =
            [status |-> "connected", lastConnectedTime |-> s.now,
             lastDisconnectTime |-> NoTime, reconnectionAttempts |-> 0,
             gaps |-> <<>>]]

\* updateConnectionState(appKey, {status}): no entry, no update.
setStatus(s, k, status) ==
    IF HasState(s, k) THEN [s EXCEPT !.states[k].status = status] ELSE s

\* updateConnectionState(appKey, {reconnectionAttempts})
setAttempts(s, k, n) ==
    IF HasState(s, k) THEN [s EXCEPT !.states[k].reconnectionAttempts = n] ELSE s

\* updateConnectionState(appKey, {lastConnectedTime: new Date()})
stampConnected(s, k) ==
    IF HasState(s, k) THEN [s EXCEPT !.states[k].lastConnectedTime = s.now] ELSE s

\* The most recent MaxGaps entries of a gap history.
Trim(gaps) ==
    IF Len(gaps) > MaxGaps THEN SubSeq(gaps, Len(gaps) - MaxGaps + 1, Len(gaps))
    ELSE gaps

\* recordConnectionGap(appKey, reason): appends an open gap, most recent last.
recordConnectionGap(s, k) ==
    IF HasState(s, k)
    THEN [s EXCEPT !.states[k].gaps = Trim(Append(@, "open"))]
    ELSE s

\* closeConnectionGap(appKey): closes the most recent gap if it is open.
closeConnectionGap(s, k) ==
    IF HasState(s, k) /\ Len(s.states[k].gaps) > 0
       /\ s.states[k].gaps[Len(s.states[k].gaps)] = "open"
    THEN [s EXCEPT !.states[k].gaps[Len(s.states[k].gaps)] = "closed"]
    ELSE s

\* saveConnectionMetadata(appKey, {port, deviceInfo, webSocketUrl})
saveConnectionMetadata(s, k) == [s EXCEPT !.meta = @ \cup {k}]

\* saveReconnectionTimer(appKey, timer): an earlier timer of the key is
\* cleared, the new one is kept.
saveReconnectionTimer(s, k, delay) == [s EXCEPT !.timers[k] = delay]

\* cancelReconnectionTimer(appKey): clearTimeout and forget the timer.
cancelReconnectionTimer(s, k) == [s EXCEPT !.timers[k] = NoTimer]

\* initContextHealth(appKey): no context id yet, not stale.
initContextHealth(s, k) ==
    [s EXCEPT !.ctx[k] = [contextId |-> 0, isStale |-> FALSE,
                          lastHealthCheckSuccess |-> TRUE]]

\* updateContextHealth(appKey, {lastHealthCheck, lastHealthCheckSuccess, isStale})
updateContextHealth(s, k, success) ==
    IF s.ctx[k] # NoContext
    THEN [s EXCEPT !.ctx[k].lastHealthCheckSuccess = success,
                   !.ctx[k].isStale = ~success]
    ELSE s

\* ------------------------------------------------------ WebSocket objects

\* A WebSocket whose events were all delivered and whose connect timer fired.
Finished(r) == r.readyState \in {"CLOSED", "NOTCREATED"} /\ ~r.timeout

SetMin(S) == CHOOSE x \in S : \A y \in S : x <= y

\* The slot of the next WebSocket.
NewWsId(s) ==
    LET free == {w \in WsIds : s.ws[w].readyState = "FREE"}
    IN IF free # {} THEN SetMin(free) ELSE NoWs

\* Finished WebSockets are garbage and their slots are freed.  History: the
\* step records whether a call it finished was left with its promise
\* unsettled (nothing remains that could settle it).
Collect(s) ==
    [s EXCEPT !.ws = [w \in WsIds |-> IF Finished(s.ws[w]) THEN FreeWs ELSE s.ws[w]],
              !.last.unsettled = \E w \in WsIds : /\ Finished(s.ws[w])
                                                  /\ s.ws[w].promise = "pending"]

\* resolve(...) and reject(...) of the promise connectToDevice returned: a
\* settled promise stays as it is.
resolve(s, w) ==
    IF s.ws[w].promise = "pending" THEN [s EXCEPT !.ws[w].promise = "resolved"] ELSE s

reject(s, w) ==
    IF s.ws[w].promise = "pending" THEN [s EXCEPT !.ws[w].promise = "rejected"] ELSE s

\* The step's operation and outcome.
Did(s, op, k, res) ==
    [s EXCEPT !.last = [op |-> op, key |-> k, res |-> res, wasStable |-> FALSE,
                        unsettled |-> FALSE, id |-> 0]]

\* --------------------------------------------------------- connection.ts

\* connectedApps.get(appKey): the WebSocket of the entry, NoWs without one.
getApp(s, k) ==
    IF \E i \in 1..Len(s.apps) : s.apps[i].key = k
    THEN s.apps[CHOOSE i \in 1..Len(s.apps) : s.apps[i].key = k].ws
    ELSE NoWs

\* connectedApps.set(appKey, app): a Map keeps the place of a key it has.
setApp(s, k, w) ==
    IF getApp(s, k) # NoWs
    THEN [s EXCEPT !.apps = [i \in 1..Len(s.apps) |->
                               IF s.apps[i].key = k THEN [key |-> k, ws |-> w]
                               ELSE s.apps[i]]]
    ELSE [s EXCEPT !.apps = Append(@, [key |-> k, ws |-> w])]

\* connectedApps.delete(appKey)
deleteApp(s, k) ==
    LET keep(e) == e.key # k IN [s EXCEPT !.apps = SelectSeq(@, keep)]

\* scheduleReconnection(appKey, config)
scheduleReconnection(s, k, config) ==
    LET state == getConnectionState(s, k) IN
    IF ~HasState(s, k) THEN s
    ELSE IF state.reconnectionAttempts >= config.maxAttempts
    THEN setStatus(s, k, "disconnected")
    ELSE LET attempts == state.reconnectionAttempts
             delay == calculateBackoffDelay(attempts, config)
             s1 == setAttempts(setStatus(s, k, "reconnecting"), k, attempts + 1)
             s2 == saveReconnectionTimer(s1, k, delay)
         IN [s2 EXCEPT !.sinceStable[k] = Min(@ + 1, MaxAttempts + 1)]

\* connectToDevice without the early return for an open connection: the
\* entry is taken for stale whatever its readyState.
connectToDeviceWithoutOpenCheck(s, k, isReconnection, config, ctorThrows) ==
    LET existingApp == getApp(s, k)
        s1 == IF existingApp # NoWs THEN deleteApp(s, k) ELSE s
        s2 == saveConnectionMetadata(
                cancelReconnectionTimer([s1 EXCEPT !.locks = @ \cup {k}], k), k)
        w == NewWsId(s2)
        call == [key |-> k, isReconnection |-> isReconnection,
                 enabled |-> config.enabled, readyState |-> "CONNECTING",
                 timeout |-> TRUE, promise |-> "pending", openedAt |-> NoTime,
                 origin |-> k]
        s3 == [s2 EXCEPT !.locks = @ \ {k}]
    IN IF k \in s1.locks THEN Did(s1, "connectToDevice", k, "inProgress")
       ELSE IF ~ctorThrows
       THEN Did([s2 EXCEPT !.ws[w] = call], "connectToDevice", k, "created")
       ELSE IF ~isReconnection THEN Did(s3, "connectToDevice", k, "rejected")
       ELSE Did([s3 EXCEPT !.ws[w] = [call EXCEPT !.readyState = "NOTCREATED",
                                                  !.timeout = FALSE]],
                "connectToDevice", k, "threw")

\* connectToDevice(device, port, options) up to the creation of the
\* WebSocket.  ctorThrows: new WebSocket(url) throws.
connectToDevice(s, k, isReconnection, config, ctorThrows) ==
    LET existingApp == getApp(s, k)
        open == existingApp # NoWs /\ s.ws[existingApp].readyState = "OPEN"
        \* WebSocket exists but not OPEN - clean up stale entry
        s1 == IF existingApp # NoWs THEN deleteApp(s, k) ELSE s
        s2 == saveConnectionMetadata(
                cancelReconnectionTimer([s1 EXCEPT !.locks = @ \cup {k}], k), k)
        w == NewWsId(s2)
        call == [key |-> k, isReconnection |-> isReconnection,
                 enabled |-> config.enabled, readyState |-> "CONNECTING",
                 timeout |-> TRUE, promise |-> "pending", openedAt |-> NoTime,
                 origin |-> k]
        s3 == [s2 EXCEPT !.locks = @ \ {k}]
    IN IF open THEN Did(s, "connectToDevice", k, "already")
       ELSE IF k \in s1.locks THEN Did(s1, "connectToDevice", k, "inProgress")
       ELSE IF ~ctorThrows
       THEN Did([s2 EXCEPT !.ws[w] = call], "connectToDevice", k, "created")
       ELSE IF ~isReconnection THEN Did(s3, "connectToDevice", k, "rejected")
       ELSE Did([s3 EXCEPT !.ws[w] = [call EXCEPT !.readyState = "NOTCREATED",
                                                  !.timeout = FALSE]],
                "connectToDevice", k, "threw")

\* An open handler that keeps the lock for the lifetime of the connection.
OnOpenHoldingLock(s, w) ==
    LET k == s.ws[w].key
        s1 == setApp([s EXCEPT !.ws[w].readyState = "OPEN",
                               !.ws[w].openedAt = s.now], k, w)
        s2 == IF s.ws[w].isReconnection
              THEN initContextHealth(
                     stampConnected(setStatus(closeConnectionGap(s1, k), k, "connected"), k), k)
              ELSE initContextHealth(initConnectionState(s1, k), k)
        s3 == [s2 EXCEPT !.messageId = @ + 3]
    IN resolve(s3, w)

\* ws.on("open")
OnOpen(s, w) ==
    LET k == s.ws[w].key
        s1 == setApp([s EXCEPT !.locks = @ \ {k}, !.ws[w].readyState = "OPEN",
                               !.ws[w].openedAt = s.now], k, w)
        s2 == IF s.ws[w].isReconnection
              THEN initContextHealth(
                     stampConnected(setStatus(closeConnectionGap(s1, k), k, "connected"), k), k)
              ELSE initContextHealth(initConnectionState(s1, k), k)
        \* Runtime.enable, Log.enable, Network.enable
        s3 == [s2 EXCEPT !.messageId = @ + 3]
    IN resolve(s3, w)

\* ws.on("close")
OnClose(s, w) ==
    LET k == s.ws[w].key
        s1 == deleteApp([s EXCEPT !.locks = @ \ {k}, !.ws[w].readyState = "CLOSED"], k)
        state == getConnectionState(s1, k)
        wasStable == /\ HasState(s1, k)
                     /\ state.lastConnectedTime # NoTime
                     /\ s.now - state.lastConnectedTime >= MIN_STABLE_CONNECTION_MS
        s2 == IF wasStable THEN setAttempts(s1, k, 0) ELSE s1
        \* updateConnectionState(appKey, {status: "disconnected", lastDisconnectTime})
        s3 == IF HasState(s2, k)
              THEN [setStatus(recordConnectionGap(s2, k), k, "disconnected")
                      EXCEPT !.states[k].lastDisconnectTime = s.now]
              ELSE s2
        \* history: this WebSocket itself was open for the stability window
        lasted == /\ s.ws[w].openedAt # NoTime
                  /\ s.now - s.ws[w].openedAt >= MIN_STABLE_CONNECTION_MS
        s4 == [s3 EXCEPT !.sinceStable[k] = IF lasted THEN 0 ELSE @,
                         !.last = [op |-> "close", key |-> k,
                                   res |-> IF lasted THEN "lasted" ELSE "short",
                                   wasStable |-> wasStable, unsettled |-> FALSE, id |-> 0]]
    IN IF s.ws[w].enabled
       THEN scheduleReconnection(s4, k, [enabled |-> TRUE, maxAttempts |-> MaxAttempts])
       ELSE s4

\* An error handler that schedules a reconnection itself.
OnErrorScheduling(s, w) ==
    LET k == s.ws[w].key
        s1 == cancelReconnectionTimer([s EXCEPT !.locks = @ \ {k}], k)
        s2 == scheduleReconnection(deleteApp(s1, k), k, DEFAULT_RECONNECTION_CONFIG)
    IN IF ~s.ws[w].isReconnection THEN reject(s2, w) ELSE s2

\* ws.on("error")
OnError(s, w) ==
    LET k == s.ws[w].key
        s1 == cancelReconnectionTimer([s EXCEPT !.locks = @ \ {k}], k)
        s2 == deleteApp(s1, k)
    IN IF ~s.ws[w].isReconnection THEN reject(s2, w) ELSE s2

\* The callback of the 5 s connect timer.  terminate() of a WebSocket that
\* is still connecting aborts the handshake: the library emits error, then
\* close.  Of an open or closing one it destroys the socket (close follows
\* as its own event); of a closed one it does nothing.
OnConnectTimeout(s, w) ==
    LET k == s.ws[w].key
        s0 == [s EXCEPT !.ws[w].timeout = FALSE]
        s1 == [s0 EXCEPT !.locks = @ \ {k}]
        s2 == IF ~s.ws[w].isReconnection THEN reject(s1, w) ELSE s1
    IN IF s.ws[w].readyState = "OPEN" THEN s0
       ELSE IF s.ws[w].readyState = "CONNECTING" THEN OnClose(OnError(s2, w), w)
       ELSE s2

\* getFirstConnectedApp(): the entries in front of the first open one are
\* stale and removed.
RECURSIVE DropStale(_, _)
DropStale(apps, sockets) ==
    IF apps = <<>> THEN <<>>
    ELSE IF sockets[Head(apps).ws].readyState = "OPEN" THEN apps
    ELSE DropStale(Tail(apps), sockets)

\* A loop that ends after the first stale entry it removed.
getFirstConnectedAppOnce(s) ==
    [s EXCEPT !.apps = IF s.apps = <<>> \/ s.ws[Head(s.apps).ws].readyState = "OPEN"
                       THEN s.apps ELSE Tail(s.apps)]

getFirstConnectedApp(s) == [s EXCEPT !.apps = DropStale(s.apps, s.ws)]

\* The app getFirstConnectedApp returns (after it ran), NoApp for null.
NoApp == [key |-> "", ws |-> NoWs]
FirstApp(s) == IF s.apps = <<>> THEN NoApp ELSE Head(s.apps)

\* findAppKeyForDevice(device): the key of the first entry of connectedApps
\* whose deviceInfo.id is the device's ("" for null).
findAppKeyForDevice(s, device) ==
    LET same(e) == e.key = device
        found == SelectSeq(s.apps, same)
    IN IF found = <<>> THEN "" ELSE Head(found).key

\* History of the callback of a request: what invoked it, "twice" from the
\* second invocation on.
Complete(c, by) == IF c = "" THEN by ELSE "twice"

\* The completion callback of a PendingExecution is invoked (history: counted).
\* executeExpressionCore registers the resolve of its promise;
\* runQuickHealthCheck a callback that clears its timer, deletes the entry,
\* updates the context health of the probed device's key and resolves.
invokeCallback(s, id, pending, success) ==
    LET s1 == [s EXCEPT !.completions[id] = Complete(@, "reply")]
        appKey == findAppKeyForDevice(s1, pending.key)
        s2 == [s1 EXCEPT !.execTimers = {t \in @ : t.id # id},
                         !.pending[id] = NoPending]
    IN IF pending.kind = "exec" THEN s1
       ELSE IF appKey # "" THEN updateContextHealth(s2, appKey, success)
       ELSE s2

\* A reply handler that invokes the callback and forgets to delete the entry
\* and to clear its timer.
handleReplyKeepingEntry(s, id, success) ==
    LET pending == s.pending[id]
    IN IF pending # NoPending
       THEN [Did([s EXCEPT !.completions[id] = Complete(@, "reply")], "reply", "", "resolved")
               EXCEPT !.last.id = id]
       ELSE [Did(s, "reply", "", "ignored") EXCEPT !.last.id = id]

\* handleCDPMessage(message, device) of a frame with a numeric id: the reply
\* to a request.  success: the reply carries neither an error nor
\* exceptionDetails.
handleReply(s, id, success) ==
    LET pending == s.pending[id]
        \* clearTimeout(pending.timeoutId); pendingExecutions.delete(message.id)
        s1 == [s EXCEPT !.execTimers = {t \in @ : t.id # id},
                        !.pending[id] = NoPending]
    IN IF pending # NoPending
       THEN [Did(invokeCallback(s1, id, pending, success), "reply", "", "resolved")
               EXCEPT !.last.id = id]
       ELSE [Did(s, "reply", "", "ignored") EXCEPT !.last.id = id]

\* A timeout callback that resolves the promise and forgets to delete the
\* entry.
onRequestTimeoutKeepingEntry(s, t) ==
    [s EXCEPT !.execTimers = @ \ {t},
              !.completions[t.id] = Complete(@, "timeout")]

\* The timeout callback of executeExpressionCore (10 s) and of
\* runQuickHealthCheck (2 s): the entry is deleted and the promise resolved
\* with the timeout failure.
onRequestTimeout(s, t) ==
    [s EXCEPT !.execTimers = @ \ {t},
              !.pending[t.id] = NoPending,
              !.completions[t.id] = Complete(@, "timeout")]

\* The request is registered and sent: the timer is armed, the entry set,
\* and, when ws.send throws, the timer cleared and the entry deleted again.
sendRequest(s, kind, key, sendThrows) ==
    LET id == s.messageId
        s1 == [s EXCEPT !.messageId = @ + 1,
                        !.execTimers = @ \cup {[id |-> id, kind |-> kind]},
                        !.pending[id] = [kind |-> kind, key |-> key]]
    IN IF sendThrows
       THEN [s1 EXCEPT !.execTimers = {t \in @ : t.id # id},
                       !.pending[id] = NoPending,
                       !.completions[id] = Complete(@, "send")]
       ELSE s1

\* executeExpressionCore(expression, awaitPromise) up to its await.
\* valid: validateAndPreprocessExpression accepts the expression.
executeExpressionCore(s, valid, sendThrows) ==
    LET s1 == getFirstConnectedApp(s)
        app == FirstApp(s1)
    IN IF app = NoApp \/ ~valid THEN s1
       ELSE sendRequest(s1, "exec", app.key, sendThrows)

\* runQuickHealthCheck(app) up to its await (history: the probe and whether
\* its send threw).
runQuickHealthCheck(s, app, sendThrows) ==
    Did(sendRequest(s, "health", app.key, sendThrows), "healthCheck", app.key,
        IF sendThrows THEN "sendFailed" ELSE "sent")

\* ---------------------------------------------------------------- metro.ts

\* What selectMainDevice reads of a DeviceInfo: the description marks the
\* bridgeless runtime, the title names Hermes, the title names React Native
\* (and neither Reanimated nor Experimental).
DeviceInfo ==
    [A |-> [bridgeless |-> FALSE, hermes |-> TRUE, reactNative |-> FALSE],
     B |-> [bridgeless |-> TRUE, hermes |-> FALSE, reactNative |-> TRUE]]

\* devices.find(p): the first element satisfying p, "" for undefined.
Find(devices, matching) ==
    IF \E i \in 1..Len(devices) : devices[i] \in matching
    THEN devices[SetMin({i \in 1..Len(devices) : devices[i] \in matching})]
    ELSE ""

\* selectMainDevice(devices)
selectMainDevice(devices) ==
    LET bridgeless == {d \in Keys : DeviceInfo[d].bridgeless}
        hermes == {d \in Keys : DeviceInfo[d].hermes}
        reactNative == {d \in Keys : DeviceInfo[d].reactNative}
    IN IF devices = <<>> THEN ""
       ELSE IF Find(devices, bridgeless) # "" THEN Find(devices, bridgeless)
       ELSE IF Find(devices, hermes) # "" THEN Find(devices, hermes)
       ELSE IF Find(devices, reactNative) # "" THEN Find(devices, reactNative)
       ELSE devices[1]

\* The lists fetchDevices can return: Metro's list with any of its entries
\* missing (a target that went away; the empty list when the fetch failed).
RECURSIVE SubSeqs(_)
SubSeqs(q) ==
    IF q = <<>> THEN {<<>>}
    ELSE LET rest == SubSeqs(Tail(q))
         IN rest \cup {<<Head(q)>> \o r : r \in rest}

fetchDevices == SubSeqs(targets)

\* ------------------------------------------------- executor.ts: validation

\* An expression is the sequence of its lexical pieces: "ws" whitespace,
\* "lineComment" a // comment with its newline, "lineCommentEnd" a // comment
\* that runs to the end of the expression, "blockComment" a closed /* */
\* comment, "openComment" an unclosed /* comment (the rest of the
\* expression), the three async markers, "code" any other code, "emoji" a
\* character outside the BMP (a surrogate pair).
AsyncMarkers == {"(async", "async ", "async("}

\* containsProblematicUnicode(str)
containsProblematicUnicode(str) == \E i \in 1..Len(str) : str[i] = "emoji"

\* String.prototype.trimStart
RECURSIVE trimStart(_)
trimStart(str) ==
    IF str # <<>> /\ Head(str) = "ws" THEN trimStart(Tail(str)) ELSE str

\* The second loop of stripLeadingComments: leading /* */ comments.
RECURSIVE stripBlockComments(_)
stripBlockComments(result) ==
    IF result # <<>> /\ Head(result) = "blockComment"
    THEN stripBlockComments(trimStart(Tail(result)))
    ELSE result

\* stripLeadingComments(expression): leading whitespace, then the leading //
\* comments, then the leading /* */ comments.
RECURSIVE stripLineComments(_)
stripLineComments(result) ==
    IF result # <<>> /\ Head(result) = "lineCommentEnd" THEN <<>>
    ELSE IF result # <<>> /\ Head(result) = "lineComment"
    THEN stripLineComments(trimStart(Tail(result)))
    ELSE stripBlockComments(result)

stripLeadingComments(expression) == stripLineComments(trimStart(expression))

\* No error message (undefined); a message is the sequence of its fragments.
NoError == <<>>

\* validateAndPreprocessExpression(expression); the errors by the start of
\* their message.
validateAndPreprocessExpression(expression) ==
    LET cleaned == stripLeadingComments(expression)
        EmojiError == <<"Expression contains emoji or special Unicode characters">>
        EmptyError == <<"Expression is empty or contains only comments.">>
        AsyncError == <<"Hermes does not support top-level async functions">>
    IN IF containsProblematicUnicode(expression)
       THEN [valid |-> FALSE, expression |-> expression, error |-> EmojiError]
       ELSE IF cleaned = <<>>
       THEN [valid |-> FALSE, expression |-> expression, error |-> EmptyError]
       ELSE IF Head(cleaned) \in AsyncMarkers
       THEN [valid |-> FALSE, expression |-> cleaned, error |-> AsyncError]
       ELSE [valid |-> TRUE, expression |-> cleaned, error |-> NoError]

\* A message is the sequence of the fragments it is made of.  toLowerCase
\* of the fragments the model uses.
Lower(fragment) ==
    CASE fragment = "Target closed" -> "target closed"
      [] fragment = "Cannot find context" -> "cannot find context"
      [] fragment = "X" -> "x"
      [] fragment = "D" -> "d"
      [] OTHER -> fragment

CONTEXT_ERROR_PATTERNS ==
    {"cannot find context", "execution context was destroyed", "target closed",
     "inspected target navigated", "session closed", "context with specified id",
     "no execution context"}

\* A check that takes every failure for a context loss.
isContextErrorOfAnyError(error) == error # <<>>

\* isContextError(error): some pattern occurs in the lower-cased message.
isContextError(error) ==
    \E i \in 1..Len(error) : Lower(error[i]) \in CONTEXT_ERROR_PATTERNS

\* ------------------------------------- connection.ts: reply classification

\* A RemoteObject; "" stands for an absent (undefined) field.
RemoteObject(type, subtype, value, valueIsObject, description, unserializableValue) ==
    [type |-> type, subtype |-> subtype, value |-> value,
     valueIsObject |-> valueIsObject, description |-> description,
     unserializableValue |-> unserializableValue]

\* JSON.stringify(value, null, 2) of an object and String(value) of a
\* primitive, for the values the model uses: "n42" the number 42, "sHi"
\* the string "Hi", "oA1" the object {a: 1}.
stringify(value) ==
    CASE value = "n42" -> "42"
      [] value = "sHi" -> "Hi"
      [] value = "oA1" -> "{\n  \"a\": 1\n}"
      [] OTHER -> value

\* formatRemoteObject(result): the text, as the sequence of its fragments.
formatRemoteObject(result) ==
    IF result.type = "undefined" THEN <<"undefined">>
    ELSE IF result.subtype = "null" THEN <<"null">>
    ELSE IF result.value # "" THEN <<stringify(result.value)>>
    ELSE IF result.description # "" THEN <<result.description>>
    ELSE IF result.unserializableValue # "" THEN <<result.unserializableValue>>
    \* `[${result.type}${result.subtype ? ` ${result.subtype}` : ""}]`
    ELSE IF result.subtype = "" THEN <<"[", result.type, "]">>
    ELSE <<"[", result.type, " ", result.subtype, "]">>

\* Absent parts of a reply.
NoCdpError == [present |-> FALSE, message |-> "", code |-> "", data |-> ""]
NoException == [present |-> FALSE, text |-> "", description |-> ""]
NoRemote == [present |-> FALSE, object |-> RemoteObject("", "", "", FALSE, "", "")]
NoResult == [present |-> FALSE, exceptionDetails |-> NoException, result |-> NoRemote]

\* A reply frame: message.error and message.result.
CdpReply(error, result) == [error |-> error, result |-> result]

\* The message of a protocol error: its parts joined by ", ".
cdpErrorMessage(error) ==
    LET parts == (IF error.message # "" THEN <<error.message>> ELSE <<>>)
                 \o (IF error.code # "" THEN <<"code: " \o error.code>> ELSE <<>>)
                 \o (IF error.data # "" THEN <<"data: " \o error.data>> ELSE <<>>)
    IN IF parts # <<>> THEN parts ELSE <<"Unknown CDP error">>

\* An ExecutionResult.
Success(result) == [success |-> TRUE, text |-> result]
Failure(error) == [success |-> FALSE, text |-> error]

\* A classification that prefers the text of an exception to its
\* description.
classifyReplyTextFirst(message) ==
    LET result == message.result
        exception == result.exceptionDetails
    IN IF message.error.present THEN Failure(cdpErrorMessage(message.error))
       ELSE IF result.present /\ exception.present
       THEN Failure(<<IF exception.text # "" THEN exception.text
                      ELSE exception.description>>)
       ELSE IF result.present /\ result.result.present
       THEN Success(formatRemoteObject(result.result.object))
       ELSE Success(<<"undefined">>)

\* handleCDPMessage: the ExecutionResult the pending request is resolved
\* with.
classifyReply(message) ==
    LET result == message.result
        exception == result.exceptionDetails
    IN IF message.error.present THEN Failure(cdpErrorMessage(message.error))
       ELSE IF result.present /\ exception.present
       THEN Failure(<<IF exception.description # "" THEN exception.description
                      ELSE exception.text>>)
       ELSE IF result.present /\ result.result.present
       THEN Success(formatRemoteObject(result.result.object))
       ELSE Success(<<"undefined">>)

\* --------------------------------------------- executor.ts: executeInApp

NoAppsFailure == Failure(<<"No apps connected. Run 'scan_metro' first.">>)
TimeoutFailure == Failure(<<"Timeout: Expression took too long to evaluate">>)
SendFailure == Failure(<<"Failed to send: ", "X">>)
GenericFailure ==
    Failure(<<"Execution failed after all retries. Connection may be stale.">>)
NoExecutionResult == [success |-> FALSE, text |-> <<>>]
NoReply == CdpReply(NoCdpError, NoResult)

\* No ensureConnection call.  pc: the await the call is at ("fetch": the
\* port scan and fetchDevices, "connect": connectToDevice, "probe":
\* runQuickHealthCheck).  conn and id: the WebSocket and the request
\* awaited.  History: connects and probes (the connectToDevice and
\* runQuickHealthCheck calls made), prev (the WebSocket a forced refresh
\* closed), connected (the field of the result).
NoEnsure ==
    [pc |-> "idle", healthCheck |-> FALSE, forceRefresh |-> FALSE,
     wasReconnected |-> FALSE, healthCheckPassed |-> TRUE, app |-> NoApp,
     conn |-> NoWs, id |-> 0, connects |-> 0, probes |-> 0, prev |-> NoWs,
     connected |-> FALSE]

\* No executeInApp call.  pc: the await the call is at ("scan": the port scan
\* and fetchDevices of attemptQuickReconnect, "connect": its connectToDevice,
\* "delay": the retry delay, "eval": executeExpressionCore).  branch: the
\* branch of the loop that awaits attemptQuickReconnect.  History: held (the
\* result of the last evaluation), reply (the reply that resolved it),
\* dispatched and reconnects (the requests sent and the reconnects
\* attempted), stale (the WebSockets that were open when the last context
\* loss was reported), lost (the WebSocket of the request has closed),
\* replied (the request was answered, by reply).
NoExec ==
    [pc |-> "idle", expr |-> <<>>, maxRetries |-> 0, autoReconnect |-> FALSE,
     attempt |-> 0, lastError |-> NoError, app |-> NoApp, id |-> 0, conn |-> NoWs,
     branch |-> "", held |-> NoExecutionResult, reply |-> NoReply,
     result |-> NoExecutionResult, dispatched |-> 0, reconnects |-> 0, stale |-> {},
     lost |-> FALSE, replied |-> FALSE]

\* return result
finish(e, result) == [e EXCEPT !.pc = "done", !.result = result]

\* cancelReconnectionTimer(appKey); app.ws.close(); connectedApps.delete(appKey)
closeConnection(s, app) ==
    LET s1 == cancelReconnectionTimer(s, app.key)
        s2 == IF s1.ws[app.ws].readyState = "OPEN"
              THEN [s1 EXCEPT !.ws[app.ws].readyState = "CLOSING"] ELSE s1
    IN deleteApp(s2, app.key)

\* executeInApp from the result of executeExpressionCore to its next await
\* or return.
afterEvaluation(s, e, result) ==
    LET e1 == [e EXCEPT !.held = result]
        e2 == [e1 EXCEPT !.lastError = result.text]
    IN IF result.success THEN [s |-> s, e |-> finish(e1, result)]
       ELSE IF isContextError(result.text) /\ e.autoReconnect /\ e.attempt < e.maxRetries
       THEN [s |-> closeConnection(s, e.app),
             e |-> [e2 EXCEPT !.pc = "scan", !.branch = "context",
                              !.reconnects = @ + 1,
                              !.stale = {w \in WsIds :
                                           s.ws[w].readyState \in {"OPEN", "CLOSING"}}]]
       ELSE [s |-> s, e |-> finish(e2, result)]

\* An iteration that reconnects without looking at the attempts left.
iterateReconnectingAlways(s, e, sendThrows) ==
    LET s1 == getFirstConnectedApp(s)
        app == FirstApp(s1)
        validation == validateAndPreprocessExpression(e.expr)
        s2 == executeExpressionCore(s1, validation.valid, sendThrows)
        e1 == [e EXCEPT !.app = app]
        e2 == [e1 EXCEPT !.dispatched = @ + 1, !.id = s1.messageId, !.lost = FALSE,
                         !.reply = NoReply, !.replied = FALSE]
    IN IF app = NoApp
       THEN IF e.autoReconnect
            THEN [s |-> s1, e |-> [e EXCEPT !.pc = "scan", !.branch = "noapp",
                                            !.reconnects = @ + 1]]
            ELSE [s |-> s1, e |-> finish(e, NoAppsFailure)]
       ELSE IF ~validation.valid
       THEN afterEvaluation(s2, e1, Failure(validation.error))
       ELSE IF sendThrows THEN afterEvaluation(s2, e2, SendFailure)
       ELSE [s |-> s2, e |-> [e2 EXCEPT !.pc = "eval"]]

\* One iteration of the loop of executeInApp, to its first await or return.
iterate(s, e, sendThrows) ==
    LET s1 == getFirstConnectedApp(s)
        app == FirstApp(s1)
        validation == validateAndPreprocessExpression(e.expr)
        s2 == executeExpressionCore(s1, validation.valid, sendThrows)
        e1 == [e EXCEPT !.app = app]
        e2 == [e1 EXCEPT !.dispatched = @ + 1, !.id = s1.messageId, !.lost = FALSE,
                         !.reply = NoReply, !.replied = FALSE]
    IN IF app = NoApp
       THEN IF e.autoReconnect /\ e.attempt < e.maxRetries
            THEN [s |-> s1, e |-> [e EXCEPT !.pc = "scan", !.branch = "noapp",
                                            !.reconnects = @ + 1]]
            ELSE [s |-> s1, e |-> finish(e, NoAppsFailure)]
       ELSE IF ~validation.valid
       THEN afterEvaluation(s2, e1, Failure(validation.error))
       ELSE IF sendThrows THEN afterEvaluation(s2, e2, SendFailure)
       ELSE [s |-> s2, e |-> [e2 EXCEPT !.pc = "eval"]]

\* attemptQuickReconnect returned false: the structural failure of the
\* branch, or the evaluation's failure after a context loss.
reconnectFailed(e) ==
    IF e.branch = "noapp" THEN finish(e, NoAppsFailure) ELSE finish(e, e.held)

\* attemptQuickReconnect(preferredPort) from the fetched list on (an empty
\* list also stands for no open port).
attemptQuickReconnect(s, e, devices, ctorThrows) ==
    LET mainDevice == selectMainDevice(devices)
        s1 == connectToDevice(s, mainDevice, FALSE, DEFAULT_RECONNECTION_CONFIG,
                              ctorThrows)
    IN IF mainDevice = "" THEN [s |-> s, e |-> reconnectFailed(e)]
       ELSE IF s1.last.res \in {"already", "inProgress"}
       THEN [s |-> s1, e |-> [e EXCEPT !.pc = "delay"]]
       ELSE IF s1.last.res = "created"
       THEN [s |-> s1, e |-> [e EXCEPT !.pc = "connect", !.conn = NewWsId(s)]]
       ELSE [s |-> s1, e |-> reconnectFailed(e)]

\* The continuation of executeInApp once the connectToDevice it awaits has
\* settled.
resume(s, e) ==
    IF e.pc # "connect" THEN e
    ELSE IF s.ws[e.conn].promise = "resolved" THEN [e EXCEPT !.pc = "delay"]
    ELSE IF s.ws[e.conn].promise = "rejected" THEN reconnectFailed(e)
    ELSE e

\* ensureConnection({healthCheck, forceRefresh}) from the position e.pc to
\* its next await or return.  devices: the list fetchDevices returned (an
\* empty one also stands for no Metro port); passed: what the probe awaited
\* resolved with.
ensureConnection(s, e, devices, ctorThrows, sendThrows, passed) ==
    LET \* return { connected: app !== null && app.ws.readyState === OPEN, ... }
        return(s0, e0, ok) ==
            [s |-> s0,
             e |-> [e0 EXCEPT !.pc = "done", !.healthCheckPassed = ok,
                              !.connected = /\ e0.app # NoApp
                                            /\ s0.ws[e0.app.ws].readyState = "OPEN"]]
        \* from the result of runQuickHealthCheck on: one reconnect if the
        \* probe failed and the call has not connected yet
        checked(s0, e0, ok) ==
            IF ~ok /\ ~e0.wasReconnected
            THEN [s |-> closeConnection(s0, e0.app),
                  e |-> [e0 EXCEPT !.pc = "fetch", !.healthCheckPassed = FALSE]]
            ELSE return(s0, e0, ok)
        \* if (healthCheck) healthCheckPassed = await runQuickHealthCheck(app)
        check(s0, e0) ==
            LET s1 == runQuickHealthCheck(s0, e0.app, sendThrows)
                e1 == [e0 EXCEPT !.pc = "probe", !.id = s0.messageId, !.probes = @ + 1]
            IN IF ~e0.healthCheck THEN return(s0, e0, TRUE)
               ELSE IF sendThrows THEN checked(s1, e1, FALSE)
               ELSE [s |-> s1, e |-> e1]
        \* app = getFirstConnectedApp(); wasReconnected = true
        connected(s0, e0) ==
            LET s1 == getFirstConnectedApp(s0)
                e1 == [e0 EXCEPT !.app = FirstApp(s1), !.wasReconnected = TRUE]
            IN IF FirstApp(s1) = NoApp THEN return(s1, e1, FALSE)
               ELSE check(s1, e1)
        s1 == getFirstConnectedApp(s)
        mainDevice == selectMainDevice(devices)
        s2 == connectToDevice(s, mainDevice, FALSE, DEFAULT_RECONNECTION_CONFIG, ctorThrows)
        e2 == [e EXCEPT !.connects = @ + 1]
    IN IF e.pc = "idle"
       THEN IF e.forceRefresh /\ FirstApp(s1) # NoApp
            THEN [s |-> closeConnection(s1, FirstApp(s1)),
                  e |-> [e EXCEPT !.pc = "fetch", !.prev = FirstApp(s1).ws]]
            ELSE IF FirstApp(s1) = NoApp THEN [s |-> s1, e |-> [e EXCEPT !.pc = "fetch"]]
            ELSE check(s1, [e EXCEPT !.app = FirstApp(s1)])
       ELSE IF e.pc = "fetch"
       THEN IF mainDevice = "" THEN return(s, e, FALSE)
            ELSE IF s2.last.res \in {"already", "inProgress"} THEN connected(s2, e2)
            ELSE IF s2.last.res = "created"
            THEN [s |-> s2, e |-> [e2 EXCEPT !.pc = "connect", !.conn = NewWsId(s)]]
            ELSE return(s2, e2, FALSE)
       ELSE IF e.pc = "connect"
       THEN IF s.ws[e.conn].promise = "resolved" THEN connected(s, e)
            ELSE return(s, e, FALSE)
       ELSE checked(s, e, passed)

\* ----------------------------------------------------------------- actions

Idle == [op |-> "", key |-> "", res |-> "", wasStable |-> FALSE, unsettled |-> FALSE, id |-> 0]

\* The step's handler started from the state without the last step's outcome.
Cur == [Pack EXCEPT !.last = Idle]

Unpack(s) ==
    /\ ws' = s.ws
    /\ connectedApps' = s.apps
    /\ connectionLocks' = s.locks
    /\ reconnectionTimers' = s.timers
    /\ connectionMetadata' = s.meta
    /\ connectionStates' = s.states
    /\ contextHealth' = s.ctx
    /\ pendingExecutions' = s.pending
    /\ execTimers' = s.execTimers
    /\ messageId' = s.messageId
    /\ now' = s.now
    /\ completions' = s.completions
    /\ sinceStable' = s.sinceStable
    /\ last' = s.last

\* Time passes.
Tick ==
    /\ now < MaxTime
    /\ Unpack([Cur EXCEPT !.now = @ + 1])
    /\ UNCHANGED <<fetching, targets, tools>>

\* attemptQuickReconnect from its fetchDevices on (executor.ts), as are the
\* connects of ensureConnection: the main device of the fetched list is
\* connected with the default options.
AttemptQuickReconnect(devices, ctorThrows) ==
    /\ selectMainDevice(devices) # ""
    /\ NewWsId(Pack) # NoWs
    /\ Unpack(Collect(connectToDevice(Cur, selectMainDevice(devices), FALSE,
                                      DEFAULT_RECONNECTION_CONFIG, ctorThrows)))
    /\ UNCHANGED <<fetching, targets, tools>>

\* The handshake succeeds: the open event.
WsOpen(w) ==
    /\ ws[w].readyState = "CONNECTING"
    /\ messageId + 2 <= MaxMessageId
    /\ Unpack(OnOpen(Cur, w))
    /\ UNCHANGED <<fetching, targets, tools>>

\* The handshake fails: the library emits error, then close.
HandshakeFail(w) ==
    /\ ws[w].readyState = "CONNECTING"
    /\ Unpack(Collect(OnClose(OnError(Cur, w), w)))
    /\ UNCHANGED <<fetching, targets, tools>>

\* The 5 s connect timer fires (it is never cleared).
ConnectTimeout(w) ==
    /\ ws[w].timeout
    /\ Unpack(Collect(OnConnectTimeout(Cur, w)))
    /\ UNCHANGED <<fetching, targets, tools>>

\* The peer starts the closing handshake: the WebSocket is CLOSING until
\* its socket ends.
PeerClose(w) ==
    /\ ws[w].readyState = "OPEN"
    /\ Unpack([Cur EXCEPT !.ws[w].readyState = "CLOSING"])
    /\ UNCHANGED <<fetching, targets, tools>>

\* An error on an open WebSocket (a protocol violation): the error event;
\* the close event follows when the socket is destroyed.
WsError(w) ==
    /\ ws[w].readyState = "OPEN"
    /\ Unpack(OnError([Cur EXCEPT !.ws[w].readyState = "CLOSING"], w))
    /\ UNCHANGED <<fetching, targets, tools>>

\* The socket of an open or closing WebSocket ends: the close event.
WsClose(w) ==
    /\ ws[w].readyState \in {"OPEN", "CLOSING"}
    /\ Unpack(Collect(OnClose(Cur, w)))
    /\ UNCHANGED <<fetching, targets, tools>>

\* A timer callback that leaves its timer armed (a repeating timer).
ReconnectionTimerRepeating(k) ==
    /\ reconnectionTimers[k] # NoTimer
    /\ fetching[k] < MaxInFlight
    /\ Unpack(Cur)
    /\ fetching' = [fetching EXCEPT ![k] = IF k \in connectionMetadata THEN @ + 1 ELSE @]
    /\ UNCHANGED <<targets, tools>>

\* The reconnection timer fires: attemptReconnection up to its await of
\* fetchDevices.
ReconnectionTimer(k) ==
    /\ reconnectionTimers[k] # NoTimer
    /\ fetching[k] < MaxInFlight
    /\ Unpack([Cur EXCEPT !.timers[k] = NoTimer])
    /\ fetching' = [fetching EXCEPT ![k] = IF k \in connectionMetadata THEN @ + 1 ELSE @]
    /\ UNCHANGED <<targets, tools>>

\* attemptReconnection(appKey, config) from the fetched list on.
attemptReconnection(s, k, devices, ctorThrows) ==
    LET same == {k}
        device == IF Find(devices, same) # "" THEN Find(devices, same)
                  ELSE selectMainDevice(devices)
        s1 == connectToDevice(s, device, TRUE, DEFAULT_RECONNECTION_CONFIG, ctorThrows)
    IN IF device = ""
       THEN scheduleReconnection(s, k, DEFAULT_RECONNECTION_CONFIG)
       ELSE IF s1.last.res \in {"created", "threw"}
       THEN [s1 EXCEPT !.ws[NewWsId(s)].origin = k]
       ELSE s1

AttemptReconnection(k, devices, ctorThrows) ==
    /\ fetching[k] > 0
    /\ NewWsId(Pack) # NoWs
    /\ Unpack(Collect(attemptReconnection(Cur, k, devices, ctorThrows)))
    /\ fetching' = [fetching EXCEPT ![k] = @ - 1]
    /\ UNCHANGED <<targets, tools>>

\* ensureConnection({forceRefresh: true}) up to its first await: the
\* connection getFirstConnectedApp returns is closed and purged.  (The same
\* three statements close the connection in executeInApp and reloadApp.)
forceRefresh(s) ==
    LET s1 == getFirstConnectedApp(s)
        app == FirstApp(s1)
        s2 == cancelReconnectionTimer(s1, app.key)
        \* app.ws.close(): the closing handshake starts
        s3 == [s2 EXCEPT !.ws[app.ws].readyState = "CLOSING"]
    IN IF app = NoApp THEN s1 ELSE deleteApp(s3, app.key)

EnsureConnectionForceRefresh ==
    /\ connectedApps # <<>>
    /\ Unpack(forceRefresh(Cur))
    /\ UNCHANGED <<fetching, targets, tools>>

\* executeInApp reaches executeExpressionCore (executor.ts, line 276).
ExecuteExpressionCore(valid, sendThrows) ==
    /\ messageId <= MaxMessageId
    /\ Unpack(executeExpressionCore(Cur, valid, sendThrows))
    /\ UNCHANGED <<fetching, targets, tools>>

\* ensureConnection() with a connection: the liveness probe is sent.
EnsureConnectionHealthCheck(sendThrows) ==
    /\ messageId <= MaxMessageId
    /\ FirstApp(getFirstConnectedApp(Pack)) # NoApp
    /\ Unpack(runQuickHealthCheck(getFirstConnectedApp(Cur),
                                  FirstApp(getFirstConnectedApp(Pack)), sendThrows))
    /\ UNCHANGED <<fetching, targets, tools>>

\* A frame with the id of a request sent earlier arrives on a WebSocket
\* (the reply, a duplicate of it, or a late one).
Reply(id, success) ==
    /\ id < messageId
    /\ \E w \in WsIds : ws[w].readyState \in {"OPEN", "CLOSING"}
    /\ Unpack(handleReply(Cur, id, success))
    /\ UNCHANGED <<fetching, targets, tools>>

\* The timeout timer of a request fires.
RequestTimeout(t) ==
    /\ t \in execTimers
    /\ Unpack(onRequestTimeout(Cur, t))
    /\ UNCHANGED <<fetching, targets, tools>>

\* ---------------------------------------------- ensureConnection, stepwise

\* ensureConnection({healthCheck, forceRefresh}) up to its first await or
\* return.
EnsureConnection(healthCheck, refresh, sendThrows) ==
    LET r == ensureConnection(Cur, [NoEnsure EXCEPT !.healthCheck = healthCheck,
                                                   !.forceRefresh = refresh],
                              <<>>, FALSE, sendThrows, FALSE)
    IN /\ ensure.pc = "idle"
       /\ Unpack(r.s)
       /\ ensure' = r.e
       /\ UNCHANGED <<fetching, targets, exec, reload, networkBuffer, logBuffer, logged>>

\* findFirstMetroPort and fetchDevices have returned: connectToDevice of
\* the main device, up to the next await or return.
EnsureFetched(devices, ctorThrows, sendThrows) ==
    LET r == ensureConnection(Cur, ensure, devices, ctorThrows, sendThrows, FALSE)
    IN /\ ensure.pc = "fetch"
       /\ selectMainDevice(devices) = "" \/ NewWsId(Pack) # NoWs
       /\ Unpack(Collect(r.s))
       /\ ensure' = r.e
       /\ UNCHANGED <<fetching, targets, exec, reload, networkBuffer, logBuffer, logged>>

\* The open event while an ensureConnection call may run.
EnsureWsOpen(w) ==
    /\ ws[w].readyState = "CONNECTING"
    /\ messageId + 2 <= MaxExecMessageId
    /\ Unpack(OnOpen(Cur, w))
    /\ UNCHANGED <<fetching, targets, tools>>

\* The connectToDevice awaited has settled: the continuation, which runs
\* before the next event is handled.
EnsureConnected(sendThrows) ==
    LET r == ensureConnection(Cur, ensure, <<>>, FALSE, sendThrows, FALSE)
    IN /\ ensure.pc = "connect"
       /\ ws[ensure.conn].promise # "pending"
       /\ Unpack(r.s)
       /\ ensure' = r.e
       /\ UNCHANGED <<fetching, targets, exec, reload, networkBuffer, logBuffer, logged>>

\* The probe awaited resolves, by its reply (passed: without an error) or
\* by its 2 s timer: the handler, then the continuation.
EnsureProbed(passed, timedOut) ==
    LET t == [id |-> ensure.id, kind |-> "health"]
        s1 == IF timedOut THEN onRequestTimeout(Cur, t)
              ELSE handleReply(Cur, ensure.id, passed)
        r == ensureConnection(s1, ensure, <<>>, FALSE, FALSE, passed /\ ~timedOut)
    IN /\ ensure.pc = "probe"
       /\ t \in execTimers
       /\ timedOut \/ ws[ensure.app.ws].readyState \in {"OPEN", "CLOSING"}
       /\ Unpack(r.s)
       /\ ensure' = r.e
       /\ UNCHANGED <<fetching, targets, exec, reload, networkBuffer, logBuffer, logged>>

\* ------------------------------------------------- executeInApp, stepwise

\* An executeInApp call is in progress.
Running == exec.pc \notin {"idle", "done"}

\* executeInApp(expression, awaitPromise, {maxRetries, autoReconnect}) up to
\* its first await or return.
ExecuteInApp(expression, maxRetries, autoReconnect, sendThrows) ==
    LET r == iterate(getFirstConnectedApp(Cur),
                     [NoExec EXCEPT !.expr = expression, !.maxRetries = maxRetries,
                                    !.autoReconnect = autoReconnect],
                     sendThrows)
    IN /\ exec.pc = "idle"
       /\ messageId <= MaxExecMessageId
       /\ Unpack(r.s)
       /\ exec' = r.e
       /\ UNCHANGED <<fetching, targets, reload, networkBuffer, logBuffer, logged, ensure>>

\* The port scan and fetchDevices of attemptQuickReconnect return: the call
\* goes on to its connectToDevice, or returns false.
ExecScan(devices, ctorThrows) ==
    LET r == attemptQuickReconnect(Cur, exec, devices, ctorThrows)
    IN /\ exec.pc = "scan"
       /\ IF selectMainDevice(devices) # "" /\ r.s.last.res \in {"created", "rejected"}
          THEN NewWsId(Pack) # NoWs ELSE TRUE
       /\ Unpack(Collect(r.s))
       /\ exec' = r.e
       /\ UNCHANGED <<fetching, targets, reload, networkBuffer, logBuffer, logged, ensure>>

\* The retry delay is over: continue, the next iteration.
ExecDelay(sendThrows) ==
    LET r == iterate(Cur, [exec EXCEPT !.attempt = @ + 1], sendThrows)
    IN /\ exec.pc = "delay"
       /\ messageId <= MaxExecMessageId
       /\ Unpack(r.s)
       /\ exec' = r.e
       /\ UNCHANGED <<fetching, targets, reload, networkBuffer, logBuffer, logged, ensure>>

\* The reply to the request of executeInApp arrives on its WebSocket.
ExecReply(message) ==
    LET result == classifyReply(message)
        r == afterEvaluation(handleReply(Cur, exec.id, result.success),
                             [exec EXCEPT !.reply = message, !.replied = TRUE], result)
    IN /\ exec.pc = "eval"
       /\ ~exec.lost
       /\ ws[exec.app.ws].readyState \in {"OPEN", "CLOSING"}
       /\ Unpack(r.s)
       /\ exec' = r.e
       /\ UNCHANGED <<fetching, targets, reload, networkBuffer, logBuffer, logged, ensure>>

\* The 10 s timer of the request of executeInApp fires.
ExecRequestTimeout ==
    LET t == [id |-> exec.id, kind |-> "exec"]
        r == afterEvaluation(onRequestTimeout(Cur, t), exec, TimeoutFailure)
    IN /\ exec.pc = "eval"
       /\ t \in execTimers
       /\ Unpack(r.s)
       /\ exec' = r.e
       /\ UNCHANGED <<fetching, targets, reload, networkBuffer, logBuffer, logged, ensure>>

\* The WebSocket events, with the continuation of an executeInApp call that
\* awaits the connect they settle.
ExecWsOpen(w) ==
    LET s1 == OnOpen(Cur, w)
    IN /\ Running
       /\ ws[w].readyState = "CONNECTING"
       /\ messageId + 2 <= MaxExecMessageId
       /\ Unpack(s1)
       /\ exec' = [resume(s1, exec) EXCEPT !.stale = @ \ {w}]
       /\ UNCHANGED <<fetching, targets, reload, networkBuffer, logBuffer, logged, ensure>>

ExecHandshakeFail(w) ==
    LET s1 == OnClose(OnError(Cur, w), w)
    IN /\ Running
       /\ ws[w].readyState = "CONNECTING"
       /\ Unpack(Collect(s1))
       /\ exec' = resume(s1, exec)
       /\ UNCHANGED <<fetching, targets, reload, networkBuffer, logBuffer, logged, ensure>>

ExecConnectTimeout(w) ==
    LET s1 == OnConnectTimeout(Cur, w)
    IN /\ Running
       /\ ws[w].timeout
       /\ Unpack(Collect(s1))
       /\ exec' = resume(s1, exec)
       /\ UNCHANGED <<fetching, targets, reload, networkBuffer, logBuffer, logged, ensure>>

ExecWsClose(w) ==
    /\ Running
    /\ ws[w].readyState \in {"OPEN", "CLOSING"}
    /\ Unpack(Collect(OnClose(Cur, w)))
    /\ exec' = [exec EXCEPT !.lost = @ \/ (exec.pc = "eval" /\ exec.app.ws = w)]
    /\ UNCHANGED <<fetching, targets, reload, networkBuffer, logBuffer, logged, ensure>>

\* While the call runs: the peer starts the closing handshake.
ExecPeerClose(w) ==
    /\ Running
    /\ PeerClose(w)

\* ------------------------------------------------------ reloadApp, stepwise

\* No reloadApp call.  pc: "wait" after the reload was triggered (the 2 s
\* wait), "cleanup" after the purge (the 0.5 s delay and fetchDevices),
\* "done" after its connectToDevice.  History: purged (the keys whose
\* connections the call closed), connects (its connectToDevice calls).
NoReload == [pc |-> "idle", purged |-> {}, connects |-> 0]

\* The loop over connectedApps.entries(): every connection (all are on the
\* port) is closed as in executeInApp.
RECURSIVE closeConnections(_)
closeConnections(s) ==
    IF s.apps = <<>> THEN s ELSE closeConnections(closeConnection(s, Head(s.apps)))

\* A purge that also empties the buffers.
ReloadPurgeClearingBuffers ==
    /\ reload.pc = "wait"
    /\ Unpack(closeConnections(Cur))
    /\ reload' = [reload EXCEPT !.pc = "cleanup",
                                !.purged = {connectedApps[i].key : i \in 1..Len(connectedApps)}]
    /\ networkBuffer' = [r \in DOMAIN networkBuffer |-> [present |-> FALSE]]
    /\ logBuffer' = <<>>
    /\ UNCHANGED <<fetching, targets, exec, logged, ensure>>

\* reloadApp after the 2 s wait: the purge.
ReloadPurge ==
    /\ reload.pc = "wait"
    /\ Unpack(closeConnections(Cur))
    /\ reload' = [reload EXCEPT !.pc = "cleanup",
                                !.purged = {connectedApps[i].key : i \in 1..Len(connectedApps)}]
    /\ UNCHANGED <<fetching, targets, exec, networkBuffer, logBuffer, logged, ensure>>

\* reloadApp after the cleanup delay, from the list fetchDevices returned
\* on: one connectToDevice with auto-reconnection disabled.
ReloadConnect(devices, ctorThrows) ==
    LET mainDevice == selectMainDevice(devices)
    IN /\ reload.pc = "cleanup"
       /\ NewWsId(Pack) # NoWs
       /\ Unpack(IF mainDevice = "" THEN Cur
                 ELSE Collect(connectToDevice(
                        Cur, mainDevice, FALSE,
                        [DEFAULT_RECONNECTION_CONFIG EXCEPT !.enabled = FALSE],
                        ctorThrows)))
       /\ reload' = [reload EXCEPT !.pc = "done",
                                   !.connects = IF mainDevice = "" THEN @ ELSE @ + 1]
       /\ UNCHANGED <<fetching, targets, exec, networkBuffer, logBuffer, logged, ensure>>

\* ------------------------------------- connection.ts: the network events

\* Network request ids.
RequestIds == {"r1", "r2"}

\* The absent NetworkRequest, and the one requestWillBeSent stores.  A CDP
\* timestamp (seconds) is counted in half milliseconds; NoTime stands for an
\* undefined timestamp or duration, 0, -1 and "" for the other undefined
\* fields.
NoRecord == [present |-> FALSE]
NetworkRequest(timestamp) ==
    [present |-> TRUE, requestTime |-> timestamp, status |-> 0, responseTime |-> NoTime,
     completed |-> FALSE, contentLength |-> -1, duration |-> NoTime, error |-> ""]

\* Network.requestWillBeSent
RequestWillBeSent(r, timestamp) ==
    /\ networkBuffer' = [networkBuffer EXCEPT ![r] = NetworkRequest(timestamp)]
    /\ UNCHANGED <<ws, connectedApps, connectionLocks, reconnectionTimers,
                   connectionMetadata, connectionStates, contextHealth,
                   pendingExecutions, execTimers, messageId, now, completions,
                   sinceStable, last, fetching, targets, exec, reload,
                      logBuffer, logged, ensure>>

\* Network.responseReceived
ResponseReceived(r, timestamp) ==
    LET existing == networkBuffer[r]
    IN /\ networkBuffer' =
            IF existing.present
            THEN [networkBuffer EXCEPT
                    ![r] = [existing EXCEPT
                              !.status = 200,
                              \* params.timestamp && existing.timing?.requestTime
                              !.responseTime = IF /\ timestamp \notin {NoTime, 0}
                                                  /\ existing.requestTime \notin {NoTime, 0}
                                               THEN timestamp ELSE @]]
            ELSE networkBuffer
       /\ UNCHANGED <<ws, connectedApps, connectionLocks, reconnectionTimers,
                      connectionMetadata, connectionStates, contextHealth,
                      pendingExecutions, execTimers, messageId, now, completions,
                      sinceStable, last, fetching, targets, exec, reload,
                      logBuffer, logged, ensure>>

\* Network.loadingFinished
LoadingFinished(r, timestamp, encodedDataLength) ==
    LET existing == networkBuffer[r]
    IN /\ networkBuffer' =
            IF existing.present
            THEN [networkBuffer EXCEPT
                    ![r] = [existing EXCEPT
                              !.completed = TRUE,
                              !.contentLength = encodedDataLength,
                              \* Math.round of a number of half milliseconds
                              \* rounds a half up
                              !.duration = IF /\ timestamp \notin {NoTime, 0}
                                              /\ existing.requestTime \notin {NoTime, 0}
                                           THEN (timestamp - existing.requestTime + 1) \div 2
                                           ELSE @]]
            ELSE networkBuffer
       /\ UNCHANGED <<ws, connectedApps, connectionLocks, reconnectionTimers,
                      connectionMetadata, connectionStates, contextHealth,
                      pendingExecutions, execTimers, messageId, now, completions,
                      sinceStable, last, fetching, targets, exec, reload,
                      logBuffer, logged, ensure>>

\* Network.loadingFailed
LoadingFailed(r, errorText, canceled) ==
    LET existing == networkBuffer[r]
    IN /\ networkBuffer' =
            IF existing.present
            THEN [networkBuffer EXCEPT
                    ![r] = [existing EXCEPT
                              !.completed = TRUE,
                              !.error = IF canceled THEN "Canceled"
                                        ELSE IF errorText # "" THEN errorText
                                        ELSE "Request failed"]]
            ELSE networkBuffer
       /\ UNCHANGED <<ws, connectedApps, connectionLocks, reconnectionTimers,
                      connectionMetadata, connectionStates, contextHealth,
                      pendingExecutions, execTimers, messageId, now, completions,
                      sinceStable, last, fetching, targets, exec, reload,
                      logBuffer, logged, ensure>>

\* ----------------------------------------- connection.ts: the console events

\* LogBuffer.add(entry) (logs.ts is not among the sources): the entry is
\* appended, and the oldest one evicted when the capacity is exceeded.
add(buffer, entry) ==
    IF Len(buffer) >= LogCapacity THEN Append(Tail(buffer), entry)
    ELSE Append(buffer, entry)

\* A handler without the test of messageText.trim().
ConsoleAPICalledKeepingBlank(args) ==
    LET messageText == [i \in 1..Len(args) |->
                          IF args[i].type = "string" THEN args[i].value
                          ELSE ToString(args[i].value)]
        blank == \A i \in 1..Len(args) : messageText[i] \in {"", " "}
        entry == [message |-> messageText, args |-> [i \in 1..Len(args) |-> args[i].value]]
    IN /\ logged < MaxLogged
       /\ \E w \in WsIds : ws[w].readyState \in {"OPEN", "CLOSING"}
       /\ logBuffer' = add(logBuffer, entry)
       /\ logged' = IF blank THEN logged ELSE logged + 1
       /\ UNCHANGED <<ws, connectedApps, connectionLocks, reconnectionTimers,
                      connectionMetadata, connectionStates, contextHealth,
                      pendingExecutions, execTimers, messageId, now, completions,
                      sinceStable, last, fetching, targets, exec, reload, networkBuffer, ensure>>

\* Runtime.consoleAPICalled: an argument is a number or a string (the other
\* types do not bear on what is stored); the message is the arguments'
\* strings, joined by blanks.  The timestamp and the level of the entry are
\* left out.
ConsoleAPICalled(args) ==
    LET messageText == [i \in 1..Len(args) |->
                          IF args[i].type = "string" THEN args[i].value
                          ELSE ToString(args[i].value)]
        \* messageText.trim()
        blank == \A i \in 1..Len(args) : messageText[i] \in {"", " "}
        entry == [message |-> messageText, args |-> [i \in 1..Len(args) |-> args[i].value]]
    IN /\ logged < MaxLogged
       /\ \E w \in WsIds : ws[w].readyState \in {"OPEN", "CLOSING"}
       /\ logBuffer' = IF blank THEN logBuffer ELSE add(logBuffer, entry)
       /\ logged' = IF blank THEN logged ELSE logged + 1
       /\ UNCHANGED <<ws, connectedApps, connectionLocks, reconnectionTimers,
                      connectionMetadata, connectionStates, contextHealth,
                      pendingExecutions, execTimers, messageId, now, completions,
                      sinceStable, last, fetching, targets, exec, reload, networkBuffer, ensure>>

\* ------------------------------- connection.ts: the context lifecycle events

\* handleCDPMessage(message, device) of an event that is neither a console
\* nor a network event, arriving on WebSocket w: the context lifecycle
\* events update the context health of the key findAppKeyForDevice finds in
\* connectedApps, any other method changes nothing.  markContextHealthy and
\* markContextStale (connectionState.ts is not among the sources) are taken to
\* set the context id and clear the staleness, and to set the staleness.
\* History: the device, the method and the context id of the event.
ContextEvent(w, method, contextId) ==
    LET device == ws[w].key
        appKey == findAppKeyForDevice(Cur, device)
        health == IF contextHealth[appKey] = NoContext
                  THEN [contextId |-> 0, isStale |-> FALSE, lastHealthCheckSuccess |-> TRUE]
                  ELSE contextHealth[appKey]
        s1 == IF appKey = "" THEN Cur
              ELSE IF method = "Runtime.executionContextCreated"
              THEN [Cur EXCEPT !.ctx[appKey] = [health EXCEPT !.contextId = contextId,
                                                              !.isStale = FALSE]]
              ELSE IF method \in {"Runtime.executionContextDestroyed",
                                  "Runtime.executionContextsCleared"}
              THEN [Cur EXCEPT !.ctx[appKey] = [health EXCEPT !.isStale = TRUE]]
              ELSE Cur
    IN /\ ws[w].readyState \in {"OPEN", "CLOSING"}
       /\ Unpack([Did(s1, "event", device, method) EXCEPT !.last.id = contextId])
       /\ UNCHANGED <<fetching, targets, tools>>

\* --------------------------------------------- connection.ts: frame routing

\* A routing that looks at the method of a frame before its id.
HandleCDPMessageMethodFirst(w, message) ==
    /\ ws[w].readyState \in {"OPEN", "CLOSING"}
    /\ IF message.method = "Runtime.consoleAPICalled"
       THEN ConsoleAPICalled(<<[type |-> "number", value |-> logged + 1]>>)
       ELSE IF message.method = "Network.requestWillBeSent"
       THEN RequestWillBeSent(message.requestId, message.timestamp)
       ELSE IF message.method = "Network.responseReceived"
       THEN ResponseReceived(message.requestId, message.timestamp)
       ELSE IF message.method = "Network.loadingFinished"
       THEN LoadingFinished(message.requestId, message.timestamp, 10)
       ELSE IF message.method = "Network.loadingFailed"
       THEN LoadingFailed(message.requestId, "E", FALSE)
       ELSE IF message.id # 0
       THEN /\ Unpack(handleReply(Cur, message.id, message.success))
            /\ UNCHANGED <<fetching, targets, tools>>
       ELSE ContextEvent(w, message.method, 1)

\* ws.on("message"): handleCDPMessage(message, device) of the frame that
\* arrives on WebSocket w.  A frame with a numeric id (0 stands for a frame
\* without one) is the reply to a request and nothing else, whatever its
\* method; the others are routed by their method, the handlers of the context
\* events being reached by every method.
HandleCDPMessage(w, message) ==
    /\ ws[w].readyState \in {"OPEN", "CLOSING"}
    /\ IF message.id # 0
       THEN /\ Unpack(handleReply(Cur, message.id, message.success))
            /\ UNCHANGED <<fetching, targets, tools>>
       ELSE IF message.method = "Runtime.consoleAPICalled"
       THEN ConsoleAPICalled(<<[type |-> "number", value |-> logged + 1]>>)
       ELSE IF message.method = "Network.requestWillBeSent"
       THEN RequestWillBeSent(message.requestId, message.timestamp)
       ELSE IF message.method = "Network.responseReceived"
       THEN ResponseReceived(message.requestId, message.timestamp)
       ELSE IF message.method = "Network.loadingFinished"
       THEN LoadingFinished(message.requestId, message.timestamp, 10)
       ELSE IF message.method = "Network.loadingFailed"
       THEN LoadingFailed(message.requestId, "E", FALSE)
       ELSE ContextEvent(w, message.method, 1)

Init ==
    /\ ws = [w \in WsIds |-> FreeWs]
    /\ connectedApps = <<>>
    /\ connectionLocks = {}
    /\ reconnectionTimers = [k \in Keys |-> NoTimer]
    /\ connectionMetadata = {}
    /\ connectionStates = [k \in Keys |-> NoState]
    /\ contextHealth = [k \in Keys |-> NoContext]
    /\ fetching = [k \in Keys |-> 0]
    /\ targets = <<"A">>
    /\ pendingExecutions = [i \in ExecMessageIds |-> NoPending]
    /\ execTimers = {}
    /\ messageId = 1
    /\ now = 0
    /\ completions = [i \in ExecMessageIds |-> ""]
    /\ sinceStable = [k \in Keys |-> 0]
    /\ last = Idle
    /\ exec = NoExec
    /\ reload = NoReload
    /\ networkBuffer = [r \in RequestIds |-> NoRecord]
    /\ logBuffer = <<>>
    /\ logged = 0
    /\ ensure = NoEnsure

Next ==
    \/ Tick
    \/ \E d \in fetchDevices, t \in BOOLEAN : AttemptQuickReconnect(d, t)
    \/ \E w \in WsIds : WsOpen(w)
    \/ \E w \in WsIds : HandshakeFail(w)
    \/ \E w \in WsIds : ConnectTimeout(w)
    \/ \E w \in WsIds : PeerClose(w)
    \/ \E w \in WsIds : WsError(w)
    \/ \E w \in WsIds : WsClose(w)
    \/ \E k \in Keys : ReconnectionTimer(k)
    \/ \E k \in Keys, d \in fetchDevices, t \in BOOLEAN : AttemptReconnection(k, d, t)
    \/ EnsureConnectionForceRefresh

Spec == Init /\ [][Next]_vars

\* -------------------------------------------- request/reply correlation

\* The state after the first connect: connectToDevice of device A, then the
\* open event of its WebSocket.
Connected ==
    OnOpen(connectToDevice(
             [ws |-> [w \in WsIds |-> FreeWs], apps |-> <<>>, locks |-> {},
              timers |-> [k \in Keys |-> NoTimer], meta |-> {},
              states |-> [k \in Keys |-> NoState],
              ctx |-> [k \in Keys |-> NoContext],
              pending |-> [i \in ExecMessageIds |-> NoPending], execTimers |-> {},
              messageId |-> 1, now |-> 0, completions |-> [i \in ExecMessageIds |-> ""],
              sinceStable |-> [k \in Keys |-> 0], last |-> Idle],
             "A", FALSE, DEFAULT_RECONNECTION_CONFIG, FALSE), 1)

InitConnected ==
    /\ ws = Connected.ws
    /\ connectedApps = Connected.apps
    /\ connectionLocks = Connected.locks
    /\ reconnectionTimers = Connected.timers
    /\ connectionMetadata = Connected.meta
    /\ connectionStates = Connected.states
    /\ contextHealth = Connected.ctx
    /\ fetching = [k \in Keys |-> 0]
    /\ targets = <<"A">>
    /\ pendingExecutions = Connected.pending
    /\ execTimers = Connected.execTimers
    /\ messageId = Connected.messageId
    /\ now = Connected.now
    /\ completions = Connected.completions
    /\ sinceStable = Connected.sinceStable
    /\ last = Idle
    /\ exec = NoExec
    /\ reload = NoReload
    /\ networkBuffer = [r \in RequestIds |-> NoRecord]
    /\ logBuffer = <<>>
    /\ logged = 0
    /\ ensure = NoEnsure

RequestTimers == [id : MessageIds, kind : {"exec", "health"}]

\* The requests of one connection's lifetime: from the open connection to its
\* end, whichever way it ends.
NextPending ==
    \/ \E v \in BOOLEAN, t \in BOOLEAN : ExecuteExpressionCore(v, t)
    \/ \E t \in BOOLEAN : EnsureConnectionHealthCheck(t)
    \/ \E id \in MessageIds, ok \in BOOLEAN : Reply(id, ok)
    \/ \E t \in RequestTimers : RequestTimeout(t)
    \/ \E w \in WsIds : ConnectTimeout(w)
    \/ \E w \in WsIds : PeerClose(w)
    \/ \E w \in WsIds : WsError(w)
    \/ \E w \in WsIds : WsClose(w)
    \/ EnsureConnectionForceRefresh

\* Node fires every armed timer.
PendingSpec ==
    /\ InitConnected
    /\ [][NextPending]_vars
    /\ WF_vars(\E t \in RequestTimers : RequestTimeout(t))

\* ------------------------------------------------------------ executeInApp

\* The replies a device sends to Runtime.evaluate.
Thrown(text, description) ==
    [present |-> TRUE, exceptionDetails |-> [present |-> TRUE, text |-> text,
                                             description |-> description],
     result |-> NoRemote]
Returned(object) ==
    [present |-> TRUE, exceptionDetails |-> NoException,
     result |-> [present |-> TRUE, object |-> object]]
Replies ==
    {CdpReply([present |-> TRUE, message |-> "Target closed", code |-> "", data |-> ""],
              Returned(RemoteObject("number", "", "n42", FALSE, "42", ""))),
     CdpReply([present |-> TRUE, message |-> "", code |-> "", data |-> ""], NoResult),
     CdpReply(NoCdpError, Thrown("X", "")),
     CdpReply(NoCdpError, Thrown("X", "D")),
     CdpReply(NoCdpError, Returned(RemoteObject("number", "", "n42", FALSE, "42", ""))),
     CdpReply(NoCdpError, NoResult)}

\* The states an executeInApp call is made in, the first message id being
\* id: A connected (as in Connected), A and B connected (then
\* connectToDevice of device B and the open event of its WebSocket), and the
\* connection to A lost (its connect timer fired, then its close event).
NoConnection(id) ==
    [ws |-> [w \in WsIds |-> FreeWs], apps |-> <<>>, locks |-> {},
     timers |-> [k \in Keys |-> NoTimer], meta |-> {},
     states |-> [k \in Keys |-> NoState],
     ctx |-> [k \in Keys |-> NoContext],
     pending |-> [i \in ExecMessageIds |-> NoPending], execTimers |-> {},
     messageId |-> id, now |-> 0, completions |-> [i \in ExecMessageIds |-> ""],
     sinceStable |-> [k \in Keys |-> 0], last |-> Idle]

OneConnected(id) ==
    OnOpen(connectToDevice(NoConnection(id), "A", FALSE, DEFAULT_RECONNECTION_CONFIG,
                           FALSE), 1)

BothConnected(id) ==
    OnOpen(connectToDevice(OneConnected(id), "B", FALSE, DEFAULT_RECONNECTION_CONFIG,
                           FALSE), 2)

Disconnected(id) ==
    Collect(OnClose(OnConnectTimeout(OneConnected(id), 1), 1))

\* One executeInApp call, made with no connection, after the connection to
\* A was lost, with A connected, or with A and B connected; Metro
\* lists both devices.
InitFrom(s) ==
    /\ ws = s.ws
    /\ connectedApps = s.apps
    /\ connectionLocks = s.locks
    /\ reconnectionTimers = s.timers
    /\ connectionMetadata = s.meta
    /\ connectionStates = s.states
    /\ contextHealth = s.ctx
    /\ pendingExecutions = s.pending
    /\ execTimers = s.execTimers
    /\ messageId = s.messageId
    /\ now = s.now
    /\ completions = s.completions
    /\ sinceStable = s.sinceStable
    /\ fetching = [k \in Keys |-> 0]
    /\ targets = <<"A", "B">>
    /\ last = Idle
    /\ exec = NoExec
    /\ reload = NoReload
    /\ networkBuffer = [r \in RequestIds |-> NoRecord]
    /\ logBuffer = <<>>
    /\ logged = 0
    /\ ensure = NoEnsure

InitExec ==
    InitFrom(Disconnected(1)) \/ InitFrom(OneConnected(1)) \/ InitFrom(BothConnected(1))

\* The call, and what happens to the connections while it runs.
NextExec ==
    \/ \E x \in {<<"code">>, <<"ws", "(async", "code">>,
                  <<"blockComment", "lineComment", "async ", "code">>,
                  <<"emoji">>, <<"lineCommentEnd">>},
             n \in 0..MaxRetries, a \in BOOLEAN, t \in BOOLEAN :
         ExecuteInApp(x, n, a, t)
    \/ \E d \in fetchDevices, t \in BOOLEAN : ExecScan(d, t)
    \/ \E t \in BOOLEAN : ExecDelay(t)
    \/ \E m \in Replies : ExecReply(m)
    \/ ExecRequestTimeout
    \/ \E w \in WsIds : ExecWsOpen(w)
    \/ \E w \in WsIds : ExecHandshakeFail(w)
    \/ \E w \in WsIds : ExecConnectTimeout(w)
    \/ \E w \in WsIds : ExecWsClose(w)
    \/ \E w \in WsIds : ExecPeerClose(w)

ExecSpec == InitExec /\ [][NextExec]_vars

\* What the call awaits returns: the port scan and the fetch (both bounded
\* by timeouts), the retry delay, the 10 s timer of the request, the 5 s
\* connect timer, the end of a closing handshake.  The last two are weak
\* fairness written out, their enabling conditions being the armed timer and
\* the closing WebSocket.
ExecFairSpec ==
    /\ ExecSpec
    /\ WF_vars(\E d \in fetchDevices, t \in BOOLEAN : ExecScan(d, t))
    /\ WF_vars(\E t \in BOOLEAN : ExecDelay(t))
    /\ WF_vars(ExecRequestTimeout)
    /\ \/ []<>(~(Running /\ \E w \in WsIds : ws[w].timeout))
       \/ []<><<\E w \in WsIds : ExecConnectTimeout(w)>>_vars
    /\ \/ []<>(~(Running /\ \E w \in WsIds : ws[w].readyState = "CLOSING"))
       \/ []<><<\E w \in WsIds : ws[w].readyState = "CLOSING" /\ ExecWsClose(w)>>_vars

\* ----------------------------------------------------------------- reloadApp

\* reloadApp after its reload expression succeeded, with A connected; the
\* connections and the reconnections go on.
InitReload ==
    /\ ws = Connected.ws
    /\ connectedApps = Connected.apps
    /\ connectionLocks = Connected.locks
    /\ reconnectionTimers = Connected.timers
    /\ connectionMetadata = Connected.meta
    /\ connectionStates = Connected.states
    /\ contextHealth = Connected.ctx
    /\ fetching = [k \in Keys |-> 0]
    /\ targets = <<"A">>
    /\ pendingExecutions = Connected.pending
    /\ execTimers = Connected.execTimers
    /\ messageId = Connected.messageId
    /\ now = Connected.now
    /\ completions = Connected.completions
    /\ sinceStable = Connected.sinceStable
    /\ last = Idle
    /\ exec = NoExec
    /\ reload = [NoReload EXCEPT !.pc = "wait"]
    /\ networkBuffer = [r \in RequestIds |-> NoRecord]
    /\ logBuffer = <<>>
    /\ logged = 0
    /\ ensure = NoEnsure

NextReload ==
    \/ ReloadPurge
    \/ \E d \in fetchDevices, t \in BOOLEAN : ReloadConnect(d, t)
    \/ \E w \in WsIds : WsOpen(w)
    \/ \E w \in WsIds : HandshakeFail(w)
    \/ \E w \in WsIds : ConnectTimeout(w)
    \/ \E w \in WsIds : PeerClose(w)
    \/ \E w \in WsIds : WsError(w)
    \/ \E w \in WsIds : WsClose(w)
    \/ \E k \in Keys : ReconnectionTimer(k)
    \/ \E k \in Keys, d \in fetchDevices, t \in BOOLEAN : AttemptReconnection(k, d, t)

ReloadSpec == InitReload /\ [][NextReload]_vars

\* ------------------------------------------------------------ network events

\* The timestamps of the events: none, 0 s, 10.0 s, 10.25 s and 10.2505 s.
Timestamps == {NoTime, 0, 20000, 20500, 20501}

\* The network events of a connected device: a timestamp, an encoded
\* length, an error text ("" when absent), the canceled flag.
NextNetwork ==
    \/ \E r \in RequestIds, ts \in Timestamps : RequestWillBeSent(r, ts)
    \/ \E r \in RequestIds, ts \in Timestamps : ResponseReceived(r, ts)
    \/ \E r \in RequestIds, ts \in Timestamps : LoadingFinished(r, ts, 10)
    \/ \E r \in RequestIds, e \in {"", "E"}, c \in BOOLEAN : LoadingFailed(r, e, c)

NetworkSpec == InitConnected /\ [][NextNetwork]_vars

\* ------------------------------------------------------------ console events

\* The console events of a connected device: console.log() without
\* arguments, console.log(" "), and console.log(n), n the number of the
\* event among those with a message.
NextLog ==
    \/ ConsoleAPICalled(<<>>)
    \/ ConsoleAPICalled(<<[type |-> "string", value |-> " "]>>)
    \/ ConsoleAPICalled(<<[type |-> "number", value |-> logged + 1]>>)

LogSpec == InitConnected /\ [][NextLog]_vars

\* ------------------------------------------------------------ captured data

\* reloadApp, a forced refresh, the connections and reconnections, and the
\* events the device sends meanwhile: one console event, one network request
\* and its end.
NextCapture ==
    \/ NextReload
    \/ EnsureConnectionForceRefresh
    \/ logBuffer = <<>> /\ ConsoleAPICalled(<<[type |-> "number", value |-> 1]>>)
    \/ /\ \E w \in WsIds : ws[w].readyState \in {"OPEN", "CLOSING"}
       /\ \/ RequestWillBeSent("r1", 20000)
          \/ LoadingFinished("r1", 20500, 10)

CaptureSpec == InitReload /\ [][NextCapture]_vars

\* ------------------------------------------------- scheduled reconnection

\* The reconnections of key A after its first connection, Metro listing both
\* devices: the close events, the timers, the attempts and their handshakes.
NextReconnect ==
    \/ \E w \in WsIds : WsOpen(w)
    \/ \E w \in WsIds : HandshakeFail(w)
    \/ \E w \in WsIds : ConnectTimeout(w)
    \/ \E w \in WsIds : WsClose(w)
    \/ \E k \in Keys : ReconnectionTimer(k)
    \/ \E k \in Keys, d \in fetchDevices, t \in BOOLEAN : AttemptReconnection(k, d, t)

ReconnectSpec == InitFrom(OneConnected(1)) /\ [][NextReconnect]_vars

\* ------------------------------------------------------------ context health

\* The context (its id is 1; a connection starts without an id) of a
\* connected device is created, destroyed and probed while its connection is
\* lost, refreshed and re-established by the tools.  The events routed are the
\* context lifecycle events and one of a method the handler does not know.
NextContext ==
    \/ \E w \in WsIds, m \in {"Runtime.executionContextCreated",
                                "Runtime.executionContextDestroyed",
                                "Runtime.executionContextsCleared",
                                "Debugger.paused"} : ContextEvent(w, m, 1)
    \/ EnsureConnectionHealthCheck(FALSE)
    \/ \E id \in MessageIds, ok \in BOOLEAN : Reply(id, ok)
    \/ \E d \in fetchDevices : AttemptQuickReconnect(d, FALSE)
    \/ EnsureConnectionForceRefresh
    \/ \E w \in WsIds : WsOpen(w)
    \/ \E w \in WsIds : ConnectTimeout(w)
    \/ \E w \in WsIds : WsClose(w)

ContextSpec == InitConnected /\ [][NextContext]_vars

\* ------------------------------------------------------------ frame routing

\* The frames a connected device sends while liveness probes are made:
\* replies (to the first probe, to no request; a frame with an id has a
\* method too) and events (known and unknown methods, known and unknown
\* request ids), one of them a console event.
NextRoute ==
    \/ EnsureConnectionHealthCheck(FALSE)
    \/ \E w \in WsIds,
          message \in [id : {0, 4, 9}, success : {TRUE},
                       method : {"Network.requestWillBeSent", "Network.responseReceived",
                                 "Network.loadingFinished", "Network.loadingFailed",
                                 "Runtime.executionContextDestroyed", "Debugger.paused"}
                                \cup (IF logged < 1 THEN {"Runtime.consoleAPICalled"} ELSE {}),
                       requestId : RequestIds, timestamp : {20000}] :
          HandleCDPMessage(w, message)

RouteSpec == InitConnected /\ [][NextRoute]_vars

\* ------------------------------------------------------- ensureConnection

\* One ensureConnection call and the events of the WebSockets before and
\* while it runs; Metro lists device A.
NextEnsure ==
    \/ \E h \in BOOLEAN, f \in BOOLEAN, t \in BOOLEAN : EnsureConnection(h, f, t)
    \/ \E d \in fetchDevices, c \in BOOLEAN, t \in BOOLEAN : EnsureFetched(d, c, t)
    \/ \E t \in BOOLEAN : EnsureConnected(t)
    \/ \E p \in BOOLEAN, o \in BOOLEAN : EnsureProbed(p, o)
    \* a settled connect is continued before the next event is handled
    \/ \E w \in {w \in WsIds : ensure.pc = "connect" => ws[ensure.conn].promise = "pending"} :
          EnsureWsOpen(w)
    \/ \E w \in {w \in WsIds : ensure.pc = "connect" => ws[ensure.conn].promise = "pending"} :
          HandshakeFail(w)
    \/ \E w \in {w \in WsIds : ensure.pc = "connect" => ws[ensure.conn].promise = "pending"} :
          ConnectTimeout(w)
    \/ \E w \in {w \in WsIds : ensure.pc = "connect" => ws[ensure.conn].promise = "pending"} :
          PeerClose(w)
    \/ \E w \in {w \in WsIds : ensure.pc = "connect" => ws[ensure.conn].promise = "pending"} :
          WsError(w)
    \/ \E w \in {w \in WsIds : ensure.pc = "connect" => ws[ensure.conn].promise = "pending"} :
          WsClose(w)

EnsureSpec == InitConnected /\ [][NextEnsure]_vars

\* ------------------------------------------------------------------ claims

Handshakes(k) == {w \in WsIds : ws[w].key = k /\ ws[w].readyState = "CONNECTING"}

\* The key has an open Connection in connectedApps.
Connection(k) ==
    /\ getApp(Pack, k) # NoWs
    /\ ws[getApp(Pack, k)].readyState = "OPEN"

\* C1 (invariant I1): in every reachable state at most one WebSocket created
\* by connectToDevice is open per connection key.
C1_OneOpenTransportPerKey ==
    \A k \in Keys :
       Cardinality({w \in WsIds : ws[w].key = k /\ ws[w].readyState = "OPEN"}) <= 1

\* C2: at most one handshake (a WebSocket created and still connecting) is
\* in progress per connection key at any time.
C2_OneHandshakePerKey == \A k \in Keys : Cardinality(Handshakes(k)) <= 1

\* C3 (invariant I3, at most once): the request of a message id is completed
\* (its callback invoked) only if it was not completed before, and the step
\* that completes it leaves no entry under the id in pendingExecutions.
C3_CompletedAtMostOnce ==
    [][\A id \in MessageIds :
         completions'[id] # completions[id]
           => completions[id] = "" /\ pendingExecutions'[id] = NoPending]_vars

\* A reply arrived for a request that had timed out, and was ignored.
C3_LateReplyIgnored ==
    /\ last.op = "reply" /\ last.res = "ignored"
    /\ completions[last.id] = "timeout"

\* C4 (invariant I3, no leak): every entry of pendingExecutions is eventually
\* removed.
C4_NoLeak ==
    \A id \in MessageIds :
        (pendingExecutions[id] # NoPending) ~> (pendingExecutions[id] = NoPending)

\* A request is pending and the WebSocket it was sent on is gone.
C4_PendingAfterClose ==
    /\ \E id \in MessageIds : pendingExecutions[id] # NoPending
    /\ \A w \in WsIds : ws[w].readyState \notin {"OPEN", "CLOSING"}

\* C5 (invariant I2): a close handler resets reconnectionAttempts if and only
\* if the WebSocket that closed had been open for the stability window, and
\* the attempt count of a key decreases in no other step.
C5_ResetIffStable ==
    [][/\ last'.op = "close" => (last'.wasStable <=> last'.res = "lasted")
       /\ \A k \in Keys :
            (/\ connectionStates[k] # NoState
             /\ connectionStates'[k].reconnectionAttempts
                  < connectionStates[k].reconnectionAttempts)
            => last'.op = "close" /\ last'.key = k /\ last'.res = "lasted"]_vars

\* C6: the reconnections scheduled for a key since its last stable connection
\* never exceed maxAttempts.
C6_ScheduledWithinCap == \A k \in Keys : sinceStable[k] <= MaxAttempts

\* C7: the delay of the armed reconnection timer is the schedule entry of
\* the number of reconnections scheduled since the last stable connection,
\* clamped to the last entry.
C7_BackoffEscalates ==
    \A k \in Keys :
        reconnectionTimers[k] # NoTimer
          => /\ sinceStable[k] >= 1
             /\ reconnectionTimers[k]
                  = BackoffSchedule[Min(sinceStable[k], Len(BackoffSchedule))]

\* C8: every connectToDevice call settles: no call is left with its promise
\* pending once its WebSocket is closed (or was never created) and its
\* connect timer has fired.
C8_EveryCallSettles == ~last.unsettled

\* C9: connectToDevice for a key with an open Connection resolves at once,
\* creates no WebSocket and leaves connectedApps, the locks, the
\* reconnection timers, the metadata, ConnectionHealth and ContextHealth
\* unchanged.
C9_AlreadyConnectedNoOp ==
    [][\A k \in Keys :
         (last'.op = "connectToDevice" /\ last'.key = k /\ Connection(k))
           => /\ last'.res = "already"
              /\ UNCHANGED <<ws, connectedApps, connectionLocks, reconnectionTimers,
                             connectionMetadata, connectionStates, contextHealth>>]_vars

\* connectToDevice returned "Already connected" while a reconnection timer of
\* the key was armed.
C9_CalledWhileConnected ==
    /\ last.op = "connectToDevice" /\ last.res = "already"
    /\ Connection(last.key)
    /\ reconnectionTimers[last.key] # NoTimer

\* C10: a key never has both a handshake in progress and an armed
\* reconnection timer.
C10_NoTimerDuringHandshake ==
    \A k \in Keys : ~(Handshakes(k) # {} /\ reconnectionTimers[k] # NoTimer)


\* ------------------------------------------------------ executeInApp claims

\* The expression without its leading whitespace and comments, in whatever
\* order they come.
RECURSIVE EffectiveBody(_)
EffectiveBody(expression) ==
    IF expression = <<>> THEN <<>>
    ELSE IF Head(expression) \in {"ws", "lineComment", "blockComment"}
    THEN EffectiveBody(Tail(expression))
    ELSE IF Head(expression) \in {"lineCommentEnd", "openComment"} THEN <<>>
    ELSE expression

\* C13: an expression whose effective body begins with an async-function
\* marker is never dispatched: executeInApp registers no pending request and
\* takes no message id for it.
C13_AsyncNeverDispatched ==
    EffectiveBody(exec.expr) # <<>> /\ Head(EffectiveBody(exec.expr)) \in AsyncMarkers =>
        /\ exec.dispatched = 0
        /\ \A t \in execTimers : t.id # exec.id \/ exec.id = 0

\* C14: for an invalid expression executeInApp returns the validation
\* failure at once, in every connection state: no reconnect is attempted and
\* the call waits for nothing.
C14_ValidationFailureImmediate ==
    LET validation == validateAndPreprocessExpression(exec.expr)
    IN exec.pc # "idle" /\ ~validation.valid =>
        /\ exec.pc = "done"
        /\ exec.result = Failure(validation.error)
        /\ exec.reconnects = 0

\* The failures of a dispatched evaluation that match no context-loss
\* phrase: a remote exception, a protocol error, the timeout, a send failure.
NonContextFailures ==
    {Failure(<<"X">>), Failure(<<"D">>), Failure(<<"Unknown CDP error">>),
     TimeoutFailure, SendFailure}

\* C15: a dispatched evaluation that fails with a message matching no
\* context-loss phrase makes executeInApp return that failure in the same
\* step: no request is dispatched after it, no WebSocket changes state, no
\* reconnection timer changes, no reconnect is attempted.
C15_NonContextFailureReturned ==
    [][/\ exec'.pc # "eval"
       /\ exec.pc = "eval" \/ exec'.dispatched = exec.dispatched + 1
       /\ exec'.held \in NonContextFailures
       =>
         /\ exec'.pc = "done"
         /\ exec'.result = exec'.held
         /\ exec'.reconnects = exec.reconnects
         /\ exec.pc = "eval" => exec'.dispatched = exec.dispatched /\ messageId' = messageId
         /\ \A w \in WsIds : ws'[w].readyState = ws[w].readyState
         /\ reconnectionTimers' = reconnectionTimers]_vars

\* A non-context failure was returned although retries were left.
C15_ReturnedWithRetriesLeft ==
    /\ exec.pc = "done"
    /\ exec.dispatched > 0
    /\ exec.held \in NonContextFailures
    /\ exec.result = exec.held
    /\ exec.autoReconnect
    /\ exec.attempt < exec.maxRetries

\* C16: with autoReconnect, the structural failure is returned only after
\* maxRetries reconnect attempts.
C16_ReconnectsUpToMaxRetries ==
    exec.pc = "done" /\ exec.autoReconnect /\ exec.result = NoAppsFailure =>
        exec.reconnects = exec.maxRetries

\* C17: on a context loss with retries left the key's reconnection timer is
\* cancelled, the WebSocket closed and the entry removed before the
\* reconnect, and the expression is dispatched again only on a WebSocket
\* opened after the context loss was reported.
C17_RetryOnFreshTransport ==
    [][/\ exec'.reconnects = exec.reconnects + 1 /\ exec'.branch = "context" =>
            /\ reconnectionTimers'[exec'.app.key] = NoTimer
            /\ ws'[exec'.app.ws].readyState # "OPEN"
            /\ \A i \in 1..Len(connectedApps') : connectedApps'[i].key # exec'.app.key
       /\ exec'.dispatched = exec.dispatched + 1 => exec'.app.ws \notin exec'.stale]_vars

\* What C18 states of the call but for the returned failure.
C18_Bounded ==
    /\ exec.dispatched <= exec.maxRetries + 1
    /\ exec.reconnects <= exec.maxRetries
    /\ exec.pc = "done" => exec.result.success \in BOOLEAN /\ Len(exec.result.text) >= 1
    /\ exec.pc = "eval" => [id |-> exec.id, kind |-> "exec"] \in execTimers
    /\ exec.pc = "connect" => ws[exec.conn].timeout /\ ws[exec.conn].promise = "pending"

C19_ReplyClassified ==
    LET error == exec.reply.error
        result == exec.reply.result
        exception == result.exceptionDetails
        failure(text) == [success |-> FALSE, text |-> <<text>>]
    IN exec.replied =>
        /\ completions[exec.id] = "reply"
        /\ error.present => ~exec.held.success
        /\ error.present /\ error.message # "" => exec.held.text[1] = error.message
        /\ ~error.present /\ exception.present /\ exception.description = ""
             => exec.held = failure(exception.text)
        /\ ~error.present /\ exception.present /\ exception.description # ""
             => exec.held = failure(exception.description)
        /\ ~error.present /\ ~result.present
             => exec.held = [success |-> TRUE, text |-> <<"undefined">>]

\* The reply carried an exception with a text and no description, one with
\* both, and an error together with a result.
C19_ExceptionTextReturned ==
    /\ exec.pc = "done"
    /\ exec.replied
    /\ exec.reply = CdpReply(NoCdpError, Thrown("X", "D"))
    /\ exec.result = [success |-> FALSE, text |-> <<"D">>]
    /\ completions[exec.id] = "reply"


\* ------------------------------------------- reconnection and reload claims

\* C11: between the purge of reloadApp and its connect, no reconnection
\* timer, attempt or reconnecting WebSocket exists for the purged keys, and
\* reloadApp connects once.
C11_NoCompetingReconnection ==
    /\ reload.pc = "cleanup" =>
         \A k \in reload.purged :
            /\ reconnectionTimers[k] = NoTimer
            /\ fetching[k] = 0
            /\ ~\E w \in WsIds : ws[w].key = k /\ ws[w].readyState = "CONNECTING"
    /\ reload.connects <= 1

\* C12: once the connect of a reconnection attempt has failed (here: new
\* WebSocket threw), the chain goes on: another reconnection is scheduled
\* (the timer) or under way (the fetch of an attempt, a WebSocket whose
\* close event will come) for the key, or the cap was reached and the
\* status is "disconnected".
C12_FailedReconnectionReschedules ==
    last.op = "connectToDevice" /\ last.res = "threw" =>
        \/ reconnectionTimers[last.key] # NoTimer
        \/ fetching[last.key] > 0
        \/ \E w \in WsIds : /\ ws[w].key = last.key
                             /\ ws[w].readyState \in {"CONNECTING", "OPEN", "CLOSING"}
        \/ connectionStates[last.key].status = "disconnected"

\* C20: a NetworkRequest that is completed is changed by no later event.
C20_CompletedRecordImmutable ==
    [][\A r \in RequestIds :
         networkBuffer[r].present /\ networkBuffer[r].completed =>
             networkBuffer'[r] = networkBuffer[r]]_vars

\* --------------------------------------------------------- buffer claims

\* C21: a loading-finished event for a known request id marks the record
\* completed; with the timestamp of the event and the requestTime of the
\* record both present it stores the duration round((timestamp -
\* requestTime) * 1000) ms, otherwise it stores no duration.
C21_DurationRounded ==
    [][\A r \in RequestIds, ts \in Timestamps :
         LoadingFinished(r, ts, 10) /\ networkBuffer[r].present =>
            /\ networkBuffer'[r].completed
            /\ networkBuffer'[r].duration =
                 IF ts # NoTime /\ networkBuffer[r].requestTime # NoTime
                 THEN (ts - networkBuffer[r].requestTime + 1) \div 2
                 ELSE networkBuffer[r].duration]_vars

\* C22 (invariant I4, end to end): after any sequence of console events
\* with non-blank messages the log buffer holds min(1000, events appended)
\* entries, the most recently appended ones in arrival order; after 1200
\* events it holds 1000 and the oldest is event 201.
C22_MostRecentInOrder ==
    /\ Len(logBuffer) = Min(LogCapacity, logged)
    /\ \A i \in 1..Len(logBuffer) :
         logBuffer[i].message = <<ToString(logged - Len(logBuffer) + i)>>
    /\ logged = 1200 => Len(logBuffer) = 1000 /\ logBuffer[1].args = <<201>>

\* 1200 console events were appended.
C22_AfterTwelveHundred ==
    /\ logged = 1200
    /\ Len(logBuffer) = 1000
    /\ logBuffer[1].message = <<"201">>
    /\ logBuffer[1000].message = <<"1200">>

\* C23: the log buffer and the network buffer are changed by routed events
\* only: a step that changes either is the handling of a console or network
\* event (which leaves the connections alone); no close, error, connect,
\* scheduled reconnection, forced refresh or reload changes an entry.
C23_CapturedDataPreserved ==
    [][<<logBuffer, networkBuffer>>' # <<logBuffer, networkBuffer>> =>
          \/ ConsoleAPICalled(<<[type |-> "number", value |-> 1]>>)
          \/ RequestWillBeSent("r1", 20000)
          \/ LoadingFinished("r1", 20500, 10)]_vars

\* reloadApp ran, the connection it made was closed, and the data captured
\* before the reload is in the buffers.
C23_DataKeptAcrossReload ==
    /\ reload.pc = "done" /\ reload.connects = 1
    /\ last.op = "close"
    /\ connectedApps = <<>>
    /\ Len(logBuffer) = 1
    /\ networkBuffer["r1"].present /\ networkBuffer["r1"].completed

\* ------------------------------------------------- connection state claims

\* C24: the status of a key moves along disconnected -> connecting ->
\* connected -> disconnected -> reconnecting -> connecting only: it becomes
\* connected only from connecting, it becomes reconnecting only from
\* disconnected (the close handler sets disconnected and schedules in one
\* step), and the disconnected of an exhausted cap is reached only from
\* reconnecting.
C24_StatusEdges ==
    [][\A k \in Keys :
         LET from == connectionStates[k].status
             to == connectionStates'[k].status
         IN from # to =>
              /\ to = "connected" => from = "connecting"
              /\ to = "reconnecting" => from = "disconnected" \/ last'.op = "close"
              /\ (/\ to = "disconnected"
                  /\ last'.op = "close"
                  /\ connectionStates'[k].reconnectionAttempts >= MaxAttempts
                  /\ reconnectionTimers'[k] = NoTimer)
                 => from = "reconnecting"]_vars

\* C25: a liveness probe that fails (a failure reply, its 2 s timeout, a
\* send failure) leaves the context health of the probed key stale with
\* lastHealthCheckSuccess false; one that succeeds leaves it not stale.
C25_FailedProbeMarksStale ==
    [][LET stale(k) == /\ contextHealth'[k] # NoContext
                       /\ contextHealth'[k].isStale
                       /\ ~contextHealth'[k].lastHealthCheckSuccess
       IN /\ \A id \in MessageIds :
               pendingExecutions[id].kind = "health" =>
                  /\ Reply(id, FALSE) => stale(pendingExecutions[id].key)
                  /\ Reply(id, TRUE) =>
                       ~contextHealth'[pendingExecutions[id].key].isStale
                  /\ RequestTimeout([id |-> id, kind |-> "health"])
                       => stale(pendingExecutions[id].key)
          /\ last'.op = "healthCheck" /\ last'.res = "sendFailed" => stale(last'.key)]_vars

\* ------------------------------------------------------------- lock claims

\* C26: the lock of a key is held only during a handshake: whenever no
\* WebSocket of the key is connecting (it opened, failed, timed out, closed,
\* or was never created), the lock of the key is free.
C26_LockOnlyDuringHandshake ==
    \A k \in Keys : Handshakes(k) = {} => k \notin connectionLocks

\* A key is connected again after failed attempts, and its lock is free.
C26_ConnectedAfterFailures ==
    \E k \in Keys :
        /\ Connection(k)
        /\ Handshakes(k) = {}
        /\ connectionStates[k].reconnectionAttempts > 1
        /\ k \notin connectionLocks

\* C27: the lock of a key is released only by the attempt that holds it: a
\* step that frees the lock ends a handshake of the key (its WebSocket
\* opens, fails or times out while connecting); the connect timer of an
\* attempt that already ended and the events of an earlier WebSocket of the
\* key do not free it.
C27_LockReleasedByHolder ==
    [][\A k \in Keys :
         k \in connectionLocks /\ k \notin connectionLocks' =>
            \E w \in WsIds : /\ ws[w].key = k
                              /\ ws[w].readyState = "CONNECTING"
                              /\ ws'[w].readyState # "CONNECTING"]_vars

\* C28: the close event of a WebSocket that executeInApp force-closed and
\* purged, arriving when a new connection of the same key is open, leaves
\* the new entry in connectedApps, the status of the key and its
\* reconnection timer as they are.
C28_StaleCloseIgnored ==
    [][LET old == exec.app.ws
           k == exec.app.key
       IN (/\ exec.branch = "context"
           /\ old # NoWs
           /\ ws[old].key = k
           /\ ws[old].readyState = "CLOSING"
           /\ ws'[old].readyState # "CLOSING"
           /\ Connection(k)
           /\ getApp(Pack, k) # old)
          => /\ connectedApps' = connectedApps
             /\ connectionStates'[k].status = connectionStates[k].status
             /\ reconnectionTimers'[k] = reconnectionTimers[k]]_vars

\* C29: after the close event of the WebSocket registered under a key, the
\* key has no entry in connectedApps, its lock is free, one gap was appended
\* (to the bounded history), lastDisconnectTime is stamped, and the status
\* is reconnecting with a reconnection timer armed when reconnection is
\* enabled and the attempts (after the stability reset) are below the cap,
\* otherwise disconnected with no timer armed.
C29_AfterClose ==
    [][\A k \in Keys :
         LET w == getApp(Pack, k)
             attempts == IF last'.wasStable THEN 0
                         ELSE connectionStates[k].reconnectionAttempts
         IN (/\ w # NoWs
             /\ ws[w].readyState \in {"OPEN", "CLOSING"}
             /\ ws'[w].readyState \notin {"OPEN", "CLOSING"}
             /\ last'.op = "close" /\ last'.key = k)
            => /\ \A i \in 1..Len(connectedApps') : connectedApps'[i].key # k
               /\ k \notin connectionLocks'
               /\ connectionStates'[k] # NoState
               /\ connectionStates'[k].gaps = Trim(Append(connectionStates[k].gaps, "open"))
               /\ connectionStates'[k].lastDisconnectTime = now
               /\ IF ws[w].enabled /\ attempts < MaxAttempts
                  THEN /\ connectionStates'[k].status = "reconnecting"
                       /\ reconnectionTimers'[k] # NoTimer
                  ELSE /\ connectionStates'[k].status = "disconnected"
                       /\ reconnectionTimers'[k] = NoTimer]_vars

C31_ReconnectsPreviousTarget ==
    [][/\ \A k \in Keys, d \in fetchDevices, t \in BOOLEAN :
            AttemptReconnection(k, d, t) /\ d # <<>> =>
               /\ last'.op = "connectToDevice"
               /\ last'.key = IF \E i \in 1..Len(d) : d[i] = k THEN k
                               ELSE selectMainDevice(d)
       /\ \A w \in WsIds :
            LET k == ws[w].origin
            IN (/\ ws[w].isReconnection
                /\ ws[w].readyState = "CONNECTING"
                /\ ws'[w].readyState = "OPEN"
                /\ connectionStates[k].status = "reconnecting")
               => /\ connectionStates'[k].status = "connected"
                  /\ connectionStates'[k].gaps # <<>>
                  /\ connectionStates'[k].gaps[Len(connectionStates'[k].gaps)]
                       = "closed"]_vars

\* -------------------------------------------------- context health claims

\* C32: after a context-created event with id c is routed on an open
\* WebSocket, the context health of its key is not stale and has contextId
\* c; after a context-destroyed or contexts-cleared event it is stale; a
\* stale context health stays stale until a context-created event of the
\* key or the open event of a WebSocket of the key.
C32_ContextEventsUpdateHealth ==
    [][/\ \A w \in WsIds :
            LET k == ws[w].key
            IN ws[w].readyState = "OPEN" =>
                 /\ ContextEvent(w, "Runtime.executionContextCreated", 1) =>
                       /\ contextHealth'[k] # NoContext
                       /\ ~contextHealth'[k].isStale
                       /\ contextHealth'[k].contextId = 1
                 /\ \/ ContextEvent(w, "Runtime.executionContextDestroyed", 1)
                    \/ ContextEvent(w, "Runtime.executionContextsCleared", 1)
                    => /\ contextHealth'[k] # NoContext
                       /\ contextHealth'[k].isStale
       /\ \A k \in Keys :
            (/\ contextHealth[k] # NoContext
             /\ contextHealth[k].isStale
             /\ ~contextHealth'[k].isStale)
            => \/ /\ last'.op = "event" /\ last'.key = k
                  /\ last'.res = "Runtime.executionContextCreated"
               \/ \E w \in WsIds : /\ ws[w].key = k
                                    /\ ws[w].readyState = "CONNECTING"
                                    /\ ws'[w].readyState = "OPEN"]_vars

\* ---------------------------------------------------- frame routing claims

\* C33: a frame that cannot be matched changes nothing: an event of an
\* unknown method, a reply whose id matches no pending request (whatever its
\* method), and a response-received, loading-finished or loading-failed
\* event for a request id without a record leave the log buffer, the network
\* buffer, the pending requests and their timers, the context health and the
\* connections as they are.
C33_UnmatchedFrameIgnored ==
    [][\A w \in WsIds,
         message \in [id : {0, 4, 9}, success : {TRUE},
                      method : {"Runtime.consoleAPICalled", "Network.requestWillBeSent",
                                "Network.responseReceived", "Network.loadingFinished",
                                "Network.loadingFailed", "Runtime.executionContextDestroyed",
                                "Debugger.paused"},
                      requestId : RequestIds, timestamp : {20000}] :
         LET unmatched ==
               \/ message.id # 0 /\ pendingExecutions[message.id] = NoPending
               \/ message.id = 0 /\ message.method = "Debugger.paused"
               \/ /\ message.id = 0
                  /\ message.method \in {"Network.responseReceived", "Network.loadingFinished",
                                          "Network.loadingFailed"}
                  /\ ~networkBuffer[message.requestId].present
         IN unmatched /\ HandleCDPMessage(w, message) =>
              UNCHANGED <<logBuffer, networkBuffer, pendingExecutions, execTimers,
                          contextHealth, connectedApps, connectionStates, ws,
                          reconnectionTimers, connectionLocks, messageId>>]_vars

\* Frames were ignored: a record, a log entry and a pending probe exist, and
\* the last frame was a reply that matched no request.
C33_UnmatchedReplyDropped ==
    /\ last.op = "reply" /\ last.res = "ignored" /\ last.id = 9
    /\ \E id \in MessageIds : pendingExecutions[id].kind = "health"
    /\ networkBuffer["r1"].present /\ ~networkBuffer["r2"].present
    /\ Len(logBuffer) = 1

\* ------------------------------------------------ reconnection timer claims

C35_ReconnectingNeverStuck ==
    \A k \in Keys :
        connectionStates[k].status = "reconnecting" =>
            \/ reconnectionTimers[k] # NoTimer
            \/ fetching[k] > 0
            \/ \E w \in WsIds : /\ ws[w].key = k
                                 /\ ws[w].readyState \in {"CONNECTING", "OPEN", "CLOSING"}
            \/ \E w \in WsIds : ws[w].origin = k /\ ws[w].readyState = "CONNECTING"

\* ------------------------------------------------ connection health claims

\* C36: the ConnectionHealth of a key agrees with connectedApps: a key with
\* an open Connection in connectedApps has status connected, and a key with
\* status connected has an entry in connectedApps.
C36_HealthAgreesWithMap ==
    \A k \in Keys :
        /\ Connection(k) => connectionStates[k].status = "connected"
        /\ connectionStates[k].status = "connected" => getApp(Pack, k) # NoWs

\* C37: the close event of a connection made with reconnection disabled
\* (the connect of reloadApp) stamps the status disconnected, records a gap,
\* resets the attempts if the connection was stable and creates no
\* reconnection timer; the status disconnected it leaves (the WebSocket was
\* open and is closed) changes only when a WebSocket of the key opens (a
\* caller connected again).
C37_DisabledNeverReschedules ==
    [][\A k \in Keys :
         /\ \A w \in WsIds :
              (/\ ws[w].key = k /\ ~ws[w].enabled
               /\ ws[w].readyState \in {"OPEN", "CLOSING"}
               /\ ws'[w].readyState \notin {"OPEN", "CLOSING"}
               /\ last'.op = "close" /\ last'.key = k)
              => /\ connectionStates'[k].status = "disconnected"
                 /\ reconnectionTimers[k] = NoTimer => reconnectionTimers'[k] = NoTimer
                 /\ connectionStates'[k].gaps
                      = Trim(Append(connectionStates[k].gaps, "open"))
                 /\ connectionStates'[k].reconnectionAttempts
                      = IF last'.wasStable THEN 0
                        ELSE connectionStates[k].reconnectionAttempts
         /\ (/\ connectionStates[k].status = "disconnected"
             /\ \E w \in WsIds : /\ ws[w].key = k /\ ~ws[w].enabled
                                  /\ ws[w].readyState = "CLOSED"
                                  /\ ws[w].openedAt # NoTime
             /\ connectionStates'[k].status # "disconnected")
            => \E w \in WsIds : /\ ws[w].key = k
                                 /\ ws[w].readyState = "CONNECTING"
                                 /\ ws'[w].readyState = "OPEN"]_vars

\* ------------------------------------------------- connection lookup claims

\* C39: getFirstConnectedApp, as called at the start of an iteration of
\* executeInApp, returns null or an entry whose WebSocket is open; it
\* removes from connectedApps the entries in front of the first open one
\* (none of them is open) and leaves the others in place and in order, the
\* open ones among them; when it returns null, connectedApps is empty.
C39_FirstOpenReturned ==
    [][LET apps == connectedApps
           open == {i \in 1..Len(apps) : ws[apps[i].ws].readyState = "OPEN"}
           null == \/ exec'.pc = "scan" /\ exec'.branch = "noapp"
                   \/ exec'.pc = "done" /\ exec'.result = NoAppsFailure
       IN exec.pc \in {"idle", "delay"} /\ exec' # exec =>
            /\ ~null => /\ ws[exec'.app.ws].readyState = "OPEN"
                        /\ connectedApps' # <<>>
                        /\ exec'.app = connectedApps'[1]
            /\ null => connectedApps' = <<>>
            /\ \A i \in 1..Len(apps) :
                  IF \E j \in open : j <= i
                  THEN \E n \in 1..Len(connectedApps') :
                          /\ connectedApps'[n] = apps[i]
                          /\ Len(connectedApps') - n = Len(apps) - i
                  ELSE \A n \in 1..Len(connectedApps') : connectedApps'[n] # apps[i]]_vars

\* An iteration found a closing entry in front of an open one: the closing
\* one was removed and the open one returned.
C39_StaleEntrySkipped ==
    /\ exec.pc = "eval"
    /\ exec.attempt > 0
    /\ connectedApps = <<exec.app>>
    /\ ws[exec.app.ws].readyState = "OPEN"
    /\ \E w \in WsIds : w # exec.app.ws /\ ws[w].readyState = "CLOSING"
                          /\ ws[w].key # exec.app.key /\ w \notin exec.stale

\* --------------------------------------------------- ensureConnection claims

\* C38: an ensureConnection call makes at most two connectToDevice calls and
\* at most two probes, and whatever it awaits ends (a connect it awaits
\* has settled or its connect timer is armed, a probe it awaits has its
\* 2 s timer armed); when it returns connected = true, an entry of
\* connectedApps holds an open WebSocket at that moment; and when a call
\* with forceRefresh starts a connect, the WebSocket that was registered
\* when it was called is no longer open and no longer in connectedApps.
C38_EnsureConnectionBounded ==
    [][/\ ensure'.connects <= 2 /\ ensure'.probes <= 2
       /\ ensure'.pc = "connect" =>
             ws'[ensure'.conn].promise # "pending" \/ ws'[ensure'.conn].timeout
       /\ ensure'.pc = "probe" => [id |-> ensure'.id, kind |-> "health"] \in execTimers'
       /\ ensure.pc # "done" /\ ensure'.pc = "done" /\ ensure'.connected =>
             \E i \in 1..Len(connectedApps') :
                ws'[connectedApps'[i].ws].readyState = "OPEN"
       /\ ensure'.connects > ensure.connects /\ ensure.prev # NoWs =>
             /\ ws'[ensure.prev].readyState # "OPEN"
             /\ \A i \in 1..Len(connectedApps') : connectedApps'[i].ws # ensure.prev]_vars

====
